---- MODULE Spec2Model ----
(***************************************************************************)
(* PDFKit standard security handler (lib/security.js) with its crypto      *)
(* wrappers (lib/crypto/*.js), modelled as a state machine: a document     *)
(* whose registry receives the encryption dictionary, the PDFSecurity      *)
(* instance built by `create` / `new PDFSecurity`, the encryptors handed   *)
(* out by getEncryptFn and their invocations.                              *)
(*                                                                         *)
(* Byte buffers (Uint8Array / Buffer) are sequences over 0..255, strings   *)
(* are sequences of UTF-16 code units.                                     *)
(***************************************************************************)
EXTENDS Integers, Sequences, FiniteSets, TLC

VARIABLES
  docId,       \* document._id, the first file-ID buffer used as salt
  docRefs,     \* the document's registry: the dictionaries passed to ref()
  options,     \* the options object of the create / constructor call
  via,         \* "none", or which entry point ran: "create" or "new"
  outcome,     \* "none", "null", "instance", or the thrown error message
  security,    \* the PDFSecurity instance's fields (NoSecurity before)
  draws,       \* number of generateRandomWordArray calls made so far
  encryptFns,  \* closures returned by getEncryptFn, in call order
  ivUses,      \* per random draw: how many encryptions used it as IV
  lastCall,    \* the latest encryptor invocation: closure, input, output
  ended,       \* number of dictionary.end() calls made by security.end()
  call,        \* a helper function called on its own: name, arguments, result
  document     \* the document core: registry, byte sink and assembler state

vars == <<docId, docRefs, options, via, outcome, security, draws,
          encryptFns, ivUses, lastCall, ended, call, document>>

---------------------------------------------------------------------------
(* Bounds of the model *)

\* getEncryptFn calls per run
MaxFns == 2
\* encryptor invocations per run
MaxCalls == 2
\* security.end() calls per run
MaxEnds == 2
\* longest buffer handed to an encryptor
MaxBufLen == 17
\* longest password drawn for the padding routine
MaxPwLen == 34

\* Object numbers the producers may allocate up to.
MaxObjects == 5

\* Ignored write / end calls on written objects.
MaxIgnored == 1

\* Pending payload bytes of a stream.
MaxPayload == 2

\* Items added to the outline.
MaxItems == 1

\* Length of a run of padding bytes, zero-length segments or standalone
\* markers in a scanned buffer.
MaxRun == 3

\* embed calls on one image.
MaxEmbeds == 3

---------------------------------------------------------------------------
(* Bit and byte arithmetic of the JavaScript operators used by the code *)

Bytes == 0..255

RECURSIVE Pow2(_)
Pow2(n) == IF n = 0 THEN 1 ELSE 2 * Pow2(n - 1)

\* Bit k (1 = least significant, 32 = sign) of a 32-bit signed integer.
Bit(x, k) == IF k = 32 THEN (IF x < 0 THEN 1 ELSE 0) ELSE (x \div Pow2(k - 1)) % 2

\* Whether the bit of weight w (a power of two below 2^31) is set in the
\* 32-bit signed integer x.
HasBit(x, w) == (x \div w) % 2 = 1

\* JavaScript `x | mask` on a 32-bit signed x, for 0 <= mask < 4096: every
\* bit of the mask that x lacks is added.
OrBit(x, mask, w) == IF HasBit(mask, w) /\ ~HasBit(x, w) THEN w ELSE 0
BitOr(x, mask) ==
  x + (((OrBit(x, mask, 1) + OrBit(x, mask, 2)) + (OrBit(x, mask, 4) + OrBit(x, mask, 8)))
       + ((OrBit(x, mask, 16) + OrBit(x, mask, 32))
          + (OrBit(x, mask, 64) + OrBit(x, mask, 128)))
       + ((OrBit(x, mask, 256) + OrBit(x, mask, 512))
          + (OrBit(x, mask, 1024) + OrBit(x, mask, 2048))))

\* JavaScript `x & 0xff` and `x & 0x3f` on a 32-bit signed x.
And255(x) == x % 256
And63(x) == x % 64

\* JavaScript `x >> n` (sign-propagating) for the shift counts of the code.
ShiftRight(x, n) ==
  x \div (CASE n = 0 -> 1 [] n = 6 -> 64 [] n = 8 -> 256 [] n = 12 -> 4096
            [] n = 16 -> 65536 [] n = 24 -> 16777216)

\* `0xHHHHLLLL >> 0`: the 32-bit literal with halves hi, lo read as signed.
ToInt32(hi, lo) == IF hi >= 32768 THEN (hi - 65536) * 65536 + lo ELSE hi * 65536 + lo

\* `a ^ b` of two bytes.
XorBit(a, b, w) == IF HasBit(a, w) # HasBit(b, w) THEN w ELSE 0
XorByte(a, b) ==
  ((XorBit(a, b, 1) + XorBit(a, b, 2)) + (XorBit(a, b, 4) + XorBit(a, b, 8)))
    + ((XorBit(a, b, 16) + XorBit(a, b, 32)) + (XorBit(a, b, 64) + XorBit(a, b, 128)))

\* The sequence with the elements of f, computed once (a function
\* expression alone is re-evaluated at every application).
Tuple(f) == f \o <<>>

\* w, computed after v.  The operators below take the value of each program
\* variable as a parameter and compute it before the next statement's, so
\* that the steps of a function are evaluated once each and in the order in
\* which the program runs them; a loop does the same for the value it
\* carries from one iteration to the next, with the test `{v} = {}`, which
\* computes v and is false.
After(v, w) == IF {v} = {} THEN w ELSE w

\* concatBytes(a, b, ...) of @noble/hashes/utils.
concatBytes(parts) ==
  LET RECURSIVE Cat(_)
      Cat(k) == IF k = 0 THEN <<>> ELSE Cat(k - 1) \o parts[k]
  IN Cat(Len(parts))

\* new Uint8Array(n): n zero bytes.
Zeros(n) == Tuple([i \in 1..n |-> 0])

\* a.slice(from, to) with 0-based, end-exclusive indices.
Slice(a, from, to) ==
  LET hi == IF to > Len(a) THEN Len(a) ELSE to
  IN IF from >= hi THEN <<>> ELSE Tuple([i \in 1..(hi - from) |-> a[from + i]])

---------------------------------------------------------------------------
(* lib/crypto: RC4 is the repository's own code and is computed exactly.   *)
(* MD5, SHA-256 and AES come from external libraries (js-md5,              *)
(* @noble/hashes, @noble/ciphers); the wrappers are modelled by what their *)
(* callers rely on: a deterministic digest of the whole input with the     *)
(* library's output length, and a keyed block cipher run in CBC / ECB mode *)
(* with or without PKCS#7 padding.  The mixing functions are stand-ins for *)
(* the libraries' compression and round functions.                         *)

\* rc4.js lines 3-6: the identity permutation.
RC4InitialState == [i \in 0..255 |-> i]

\* rc4.js lines 10-11: one step of the key schedule; st = <<s, j>>.
KSAStep(st, key, i) ==
  LET s == st[1]
      j == (st[2] + s[i] + key[(i % Len(key)) + 1]) % 256
  IN <<[s EXCEPT ![i] = s[j], ![j] = s[i]], j>>

\* rc4.js lines 9-12: steps lo..hi of the key schedule, in order.
RECURSIVE KSARange(_, _, _, _)
KSARange(st, key, lo, hi) ==
  IF {st} = {} THEN st
  ELSE IF lo = hi THEN KSAStep(st, key, lo)
  ELSE KSARange(KSARange(st, key, lo, (lo + hi) \div 2), key, (lo + hi) \div 2 + 1, hi)

\* The output byte made by addition modulo 256 instead of XOR.
PRGAOutputAdd(s, i, j, output, byte) ==
  <<s, i, j, Append(output, (byte + s[(s[i] + s[j]) % 256]) % 256)>>

\* rc4.js lines 18-19: the output byte after the swap.
PRGAOutput(s, i, j, output, byte) ==
  <<s, i, j, Append(output, XorByte(byte, s[(s[i] + s[j]) % 256]))>>

\* rc4.js lines 16-19: one output byte; st = <<s, i, j, output>>.
PRGAStep(st, data, k) ==
  LET i == (st[2] + 1) % 256
      s0 == st[1]
      j == (st[3] + s0[i]) % 256
  IN PRGAOutput([s0 EXCEPT ![i] = s0[j], ![j] = s0[i]], i, j, st[4], data[k])

\* rc4.js lines 15-20: output bytes lo..hi, in order.
RECURSIVE PRGARange(_, _, _, _)
PRGARange(st, data, lo, hi) ==
  IF {st} = {} THEN st
  ELSE IF lo = hi THEN PRGAStep(st, data, lo)
  ELSE PRGARange(PRGARange(st, data, lo, (lo + hi) \div 2), data, (lo + hi) \div 2 + 1, hi)

\* rc4.js: rc4(data, key).
rc4(data, key) ==
  IF data = <<>> THEN <<>>
  ELSE After(key,
             PRGARange(<<KSARange(<<RC4InitialState, 0>>, key, 0, 255)[1], 0, 0, <<>>>>,
                       data, 1, Len(data))[4])

\* Stand-in digest: folds the input bytes lo..hi, in order, into the
\* accumulator h.
RECURSIVE DigestFold(_, _, _, _)
DigestFold(data, lo, hi, h) ==
  IF {h} = {} THEN h
  ELSE IF lo > hi THEN h
  ELSE IF lo = hi THEN (h * 131 + data[lo] + 1) % 999983
  ELSE DigestFold(data, (lo + hi) \div 2 + 1, hi,
                  DigestFold(data, lo, (lo + hi) \div 2, h))

\* Stand-in digest: n output bytes spread from the accumulator.
DigestBytes(h, n) ==
  After(h, Tuple([i \in 1..n |-> (h * (i + 1) + 97 * i + (h \div 256)) % 256]))

\* md5.js: md5Hash(data), 16 bytes.
md5Hash(data) == After(data, DigestBytes(DigestFold(data, 1, Len(data), 7), 16))

\* sha256.js: sha256Hash(data), 32 bytes.
sha256Hash(data) == After(data, DigestBytes(DigestFold(data, 1, Len(data), 11), 32))

\* Stand-in for one AES block encryption: a keyed byte-wise bijection.
AesBlock(block, key) ==
  Tuple([j \in 1..16 |-> (block[j] + key[((j - 1) % Len(key)) + 1] + j) % 256])

\* PKCS#7: pad to the next multiple of 16, always adding 1..16 bytes.
\* Padding that adds no block to an input already a multiple of 16 bytes.
Pkcs7PadShort(data) ==
  data \o Tuple([i \in 1..((16 - (Len(data) % 16)) % 16) |-> (16 - (Len(data) % 16)) % 16])

Pkcs7Pad(data) ==
  LET pad == 16 - (Len(data) % 16)
  IN data \o Tuple([i \in 1..pad |-> pad])

\* CBC chaining over the blocks of an input whose length is a multiple of
\* 16: block k is XORed with the previous cipher block, encrypted, and is
\* followed by the rest of the chain.
RECURSIVE CbcBlocks(_, _, _, _)
CbcChain(data, key, c, k) == c \o CbcBlocks(data, key, c, k + 1)
CbcBlocks(data, key, prev, k) ==
  IF 16 * k >= Len(data) THEN <<>>
  ELSE CbcChain(data, key,
                AesBlock(Tuple([j \in 1..16 |-> XorByte(data[16 * k + j], prev[j])]), key),
                k)

\* aes.js: aesCbcEncrypt(data, key, iv, padding).
aesCbcEncrypt(data, key, iv, padding) ==
  CbcBlocks(IF padding THEN Pkcs7Pad(data) ELSE data, key, iv, 0)

\* aes.js: aesEcbEncrypt(data, key), padding disabled.
aesEcbEncrypt(data, key) ==
  LET RECURSIVE Ecb(_)
      Ecb(k) == IF 16 * k >= Len(data) THEN <<>>
                ELSE AesBlock(Tuple([j \in 1..16 |-> data[16 * k + j]]), key) \o Ecb(k + 1)
  IN Ecb(0)

\* random.js: the byte patterns getRandomValues may deliver in the model,
\* one per entropy outcome.
Entropy == {23, 200}
randomBytes(length, e) == Tuple([i \in 1..length |-> (e + 29 * i) % 256])

---------------------------------------------------------------------------
(* lib/security.js: the module-level helper functions *)

\* A call that returns value v, and a call that throws an Error with message m.
Return(v) == [threw |-> FALSE, value |-> v, error |-> ""]
Throw(m) == [threw |-> TRUE, value |-> <<>>, error |-> m]

NoPasswordError == "None of owner password and user password is defined."
InvalidPasswordError == "Password contains one or more invalid characters."

\* An optional string argument: absent (undefined) or a string of code units.
AbsentString == [present |-> FALSE, chars |-> <<>>]
String(chars) == [present |-> TRUE, chars |-> chars]

\* JavaScript truthiness of an optional string: present and non-empty.
Truthy(str) == str.present /\ Len(str.chars) > 0

PASSWORD_PADDING ==
  << 40, 191,  78,  94,  78, 117, 138,  65, 100,   0,  78,  86, 255,
    250,   1,   8,  46,  46,   0, 182, 208, 104,  62, 128,  47,  12,
    169, 254, 100,  83, 105, 122 >>

\* The value of permissions.printing: the key absent, a boolean, or a string.
PrintingValues == {"undefined", "false", "true", "lowResolution", "highResolution"}
TruthyPrinting(p) == p \notin {"undefined", "false"}

\* options.permissions absent: the default parameter {} has no key set.
NoPermissions ==
  [printing |-> "undefined", modifying |-> FALSE, copying |-> FALSE,
   annotating |-> FALSE, fillingForms |-> FALSE,
   contentAccessibility |-> FALSE, documentAssembly |-> FALSE]

\* R2 flags with the weights of modifying and copying exchanged.
getPermissionsR2Swapped(permissionObject) ==
  LET p0 == ToInt32(65535, 65472)
      p1 == IF TruthyPrinting(permissionObject.printing) THEN BitOr(p0, 4) ELSE p0
      p2 == IF permissionObject.modifying THEN BitOr(p1, 16) ELSE p1
      p3 == IF permissionObject.copying THEN BitOr(p2, 8) ELSE p2
      p4 == IF permissionObject.annotating THEN BitOr(p3, 32) ELSE p3
  IN p4

getPermissionsR2(permissionObject) ==
  LET p0 == ToInt32(65535, 65472)
      p1 == IF TruthyPrinting(permissionObject.printing) THEN BitOr(p0, 4) ELSE p0
      p2 == IF permissionObject.modifying THEN BitOr(p1, 8) ELSE p1
      p3 == IF permissionObject.copying THEN BitOr(p2, 16) ELSE p2
      p4 == IF permissionObject.annotating THEN BitOr(p3, 32) ELSE p3
  IN p4

\* R3 flags where any truthy printing value sets bit 3.
getPermissionsR3Truthy(permissionObject) ==
  LET p0 == ToInt32(65535, 61632)
      p1 == IF TruthyPrinting(permissionObject.printing) THEN BitOr(p0, 4) ELSE p0
      p2 == IF permissionObject.printing = "highResolution" THEN BitOr(p1, 2052) ELSE p1
      p3 == IF permissionObject.modifying THEN BitOr(p2, 8) ELSE p2
      p4 == IF permissionObject.copying THEN BitOr(p3, 16) ELSE p3
      p5 == IF permissionObject.annotating THEN BitOr(p4, 32) ELSE p4
      p6 == IF permissionObject.fillingForms THEN BitOr(p5, 256) ELSE p5
      p7 == IF permissionObject.contentAccessibility THEN BitOr(p6, 512) ELSE p6
      p8 == IF permissionObject.documentAssembly THEN BitOr(p7, 1024) ELSE p7
  IN p8

getPermissionsR3(permissionObject) ==
  LET p0 == ToInt32(65535, 61632)
      p1 == IF permissionObject.printing = "lowResolution" THEN BitOr(p0, 4) ELSE p0
      p2 == IF permissionObject.printing = "highResolution" THEN BitOr(p1, 2052) ELSE p1
      p3 == IF permissionObject.modifying THEN BitOr(p2, 8) ELSE p2
      p4 == IF permissionObject.copying THEN BitOr(p3, 16) ELSE p3
      p5 == IF permissionObject.annotating THEN BitOr(p4, 32) ELSE p4
      p6 == IF permissionObject.fillingForms THEN BitOr(p5, 256) ELSE p5
      p7 == IF permissionObject.contentAccessibility THEN BitOr(p6, 512) ELSE p6
      p8 == IF permissionObject.documentAssembly THEN BitOr(p7, 1024) ELSE p7
  IN p8

\* Padding that continues PASSWORD_PADDING at the output position instead of
\* starting it at index - length.
processPasswordR2R3R4PadAtIndex(password) ==
  LET chars == password.chars
      length == Len(chars)
      copied == IF length < 32 THEN length ELSE 32
  IN IF \E i \in 1..copied : chars[i] > 255
     THEN Throw(InvalidPasswordError)
     ELSE Return(Tuple([i \in 1..32 |->
                    IF i <= copied THEN chars[i] ELSE PASSWORD_PADDING[i]]))

\* processPasswordR2R3R4(password = ''): the first loop copies and checks
\* the code units at index < min(length, 32); the second pads from
\* PASSWORD_PADDING[index - length].
processPasswordR2R3R4(password) ==
  LET chars == password.chars
      length == Len(chars)
      copied == IF length < 32 THEN length ELSE 32
  IN IF \E i \in 1..copied : chars[i] > 255
     THEN Throw(InvalidPasswordError)
     ELSE Return(Tuple([i \in 1..32 |->
                    IF i <= copied THEN chars[i] ELSE PASSWORD_PADDING[i - length]]))

\* [permissions & 0xff, (permissions >> 8) & 0xff, ... >> 24]: LSB first.
PermissionBytes(permissions) ==
  Tuple([k \in 1..4 |-> And255(ShiftRight(permissions, 8 * (k - 1)))])

\* `for (i = 0; i < round; i++) { key = md5Hash(key); key = key.slice(0, keyLen) }`:
\* round rounds of MD5, each truncated to keyLen bytes (keyLen = 16 keeps
\* the whole digest).
RECURSIVE Md5Rounds(_, _, _)
Md5Rounds(digest, round, keyLen) ==
  IF {digest} = {} THEN digest
  ELSE IF round = 0 THEN digest
  ELSE IF round = 1 THEN Slice(md5Hash(digest), 0, keyLen)
  ELSE Md5Rounds(Md5Rounds(digest, round \div 2, keyLen), round - round \div 2, keyLen)

\* `for (i = from; i < to; i++) cipher = rc4(cipher, key ^ i)`.
RECURSIVE Rc4Rounds(_, _, _, _)
Rc4Rounds(cipher, key, from, to) ==
  IF {cipher} = {} THEN cipher
  ELSE IF from >= to THEN cipher
  ELSE IF from + 1 = to
  THEN rc4(cipher, Tuple([j \in 1..Len(key) |-> XorByte(key[j], from)]))
  ELSE Rc4Rounds(Rc4Rounds(cipher, key, from, (from + to) \div 2), key,
                 (from + to) \div 2, to)

getUserPasswordR2(encryptionKey) ==
  rc4(processPasswordR2R3R4(AbsentString).value, encryptionKey)

\* `result = new Uint8Array(n); result.set(bytes)` for Len(bytes) <= n.
\* The bytes as they are, without the zero fill.
SetIntoUnfilled(bytes, n) == bytes

SetInto(bytes, n) == Tuple([i \in 1..n |-> IF i <= Len(bytes) THEN bytes[i] ELSE 0])

getUserPasswordR3R4(documentId, encryptionKey) ==
  SetInto(Rc4Rounds(md5Hash(concatBytes(<<processPasswordR2R3R4(AbsentString).value,
                                           documentId>>)),
                    encryptionKey, 0, 20),
          32)

\* The owner cipher made with a single RC4 pass for every revision.
OwnerCipherOnePass(r, paddedUserPassword, key) ==
  After(key, Rc4Rounds(paddedUserPassword, key, 0, 1))

\* getOwnerPasswordR2R3R4 from its second loop on.
OwnerCipher(r, paddedUserPassword, key) ==
  After(key, Rc4Rounds(paddedUserPassword, key, 0, IF r >= 3 THEN 20 ELSE 1))

getOwnerPasswordR2R3R4(r, keyBits, paddedUserPassword, paddedOwnerPassword) ==
  OwnerCipher(r, paddedUserPassword,
              Slice(Md5Rounds(paddedOwnerPassword, IF r >= 3 THEN 51 ELSE 1, 16),
                    0, keyBits \div 8))

\* The key obtained with 50 rounds instead of 51 for r >= 3.
getEncryptionKeyR2R3R4FiftyRounds(r, keyBits, documentId, paddedUserPassword, ownerPasswordEntry, permissions) ==
  LET key == concatBytes(<<paddedUserPassword, ownerPasswordEntry,
                           PermissionBytes(permissions), documentId>>)
  IN Md5Rounds(key, IF r >= 3 THEN 50 ELSE 1, keyBits \div 8)

\* lib/security.js lines 352-380.
getEncryptionKeyR2R3R4(r, keyBits, documentId, paddedUserPassword, ownerPasswordEntry, permissions) ==
  LET key == concatBytes(<<paddedUserPassword, ownerPasswordEntry,
                           PermissionBytes(permissions), documentId>>)
  IN Md5Rounds(key, IF r >= 3 THEN 51 ELSE 1, keyBits \div 8)

\* lib/saslprep (RFC 4013) on the code units the model draws: a non-ASCII
\* space (U+00A0) maps to U+0020, a soft hyphen (U+00AD) maps to nothing,
\* every other code unit of the model's alphabet is kept.
saslprep(chars) ==
  Tuple([k \in 1..Len(SelectSeq(chars, LAMBDA c : c # 173)) |->
           IF SelectSeq(chars, LAMBDA c : c # 173)[k] = 160 THEN 32
           ELSE SelectSeq(chars, LAMBDA c : c # 173)[k]])

\* unescape(encodeURIComponent(s)): the UTF-8 bytes of the code units
\* lo..hi of a string of BMP, non-surrogate code units.
RECURSIVE Utf8Range(_, _, _)
Utf8Range(chars, lo, hi) ==
  IF lo > hi THEN <<>>
  ELSE IF lo < hi
  THEN Utf8Range(chars, lo, (lo + hi) \div 2) \o Utf8Range(chars, (lo + hi) \div 2 + 1, hi)
  ELSE IF chars[lo] < 128 THEN <<chars[lo]>>
  ELSE IF chars[lo] < 2048
  THEN <<192 + ShiftRight(chars[lo], 6), 128 + And63(chars[lo])>>
  ELSE <<224 + ShiftRight(chars[lo], 12),
         128 + And63(ShiftRight(chars[lo], 6)),
         128 + And63(chars[lo])>>
Utf8(chars) == After(chars, Utf8Range(chars, 1, Len(chars)))

\* The first Math.min(127, length) bytes.
First127(bytes) == Slice(bytes, 0, IF Len(bytes) < 127 THEN Len(bytes) ELSE 127)

processPasswordR5(password) == First127(Utf8(saslprep(password.chars)))

\* The generateRandomWordArray parameter of the R5 helpers is modelled by
\* rnd, the entropy outcomes of the calls the helper makes, in call order.
getUserPasswordR5(processedUserPassword, rnd) ==
  LET validationSalt == randomBytes(8, rnd[1])
      keySalt == randomBytes(8, rnd[2])
      hash == sha256Hash(concatBytes(<<processedUserPassword, validationSalt>>))
  IN concatBytes(<<hash, validationSalt, keySalt>>)

getUserEncryptionKeyR5(processedUserPassword, userKeySalt, encryptionKey) ==
  LET key == sha256Hash(concatBytes(<<processedUserPassword, userKeySalt>>))
  IN aesCbcEncrypt(encryptionKey, key, Zeros(16), FALSE)

getOwnerPasswordR5(processedOwnerPassword, userPasswordEntry, rnd) ==
  LET validationSalt == randomBytes(8, rnd[1])
      keySalt == randomBytes(8, rnd[2])
      hash == sha256Hash(concatBytes(<<processedOwnerPassword, validationSalt,
                                       userPasswordEntry>>))
  IN concatBytes(<<hash, validationSalt, keySalt>>)

\* The owner key derived without the user password entry.
getOwnerEncryptionKeyR5NoUser(processedOwnerPassword, ownerKeySalt, userPasswordEntry, encryptionKey) ==
  LET key == sha256Hash(concatBytes(<<processedOwnerPassword, ownerKeySalt>>))
  IN aesCbcEncrypt(encryptionKey, key, Zeros(16), FALSE)

getOwnerEncryptionKeyR5(processedOwnerPassword, ownerKeySalt, userPasswordEntry, encryptionKey) ==
  LET key == sha256Hash(concatBytes(<<processedOwnerPassword, ownerKeySalt,
                                      userPasswordEntry>>))
  IN aesCbcEncrypt(encryptionKey, key, Zeros(16), FALSE)

getEncryptionKeyR5(rnd) == randomBytes(32, rnd[1])

\* The permissions block with the marker bytes in the order 'adbT'.
getEncryptedPermissionsR5Adbt(permissions, encryptionKey, rnd) ==
  LET data == concatBytes(<<PermissionBytes(permissions),
                            <<255, 255, 255, 255>>,
                            <<97, 100, 98, 84>>,
                            randomBytes(4, rnd[1])>>)
  IN aesEcbEncrypt(data, encryptionKey)

getEncryptedPermissionsR5(permissions, encryptionKey, rnd) ==
  LET data == concatBytes(<<PermissionBytes(permissions),
                            <<255, 255, 255, 255>>,
                            <<84, 97, 100, 98>>,
                            randomBytes(4, rnd[1])>>)
  IN aesEcbEncrypt(data, encryptionKey)

---------------------------------------------------------------------------
(* lib/security.js: class PDFSecurity *)

NoSecurity == [constructed |-> FALSE]

\* The version switch with '1.5' grouped with '1.6' and '1.7'.
VersionOfLate(pdfVersion) ==
  CASE pdfVersion = "1.4" -> 2
    [] pdfVersion \in {"1.5", "1.6", "1.7"} -> 4
    [] pdfVersion = "1.7ext3" -> 5
    [] OTHER -> 1

\* The switch on options.pdfVersion; "undefined" stands for an absent option.
PdfVersions == {"undefined", "1.3", "1.4", "1.5", "1.6", "1.7", "1.7ext3"}
VersionOf(pdfVersion) ==
  CASE pdfVersion \in {"1.4", "1.5"} -> 2
    [] pdfVersion \in {"1.6", "1.7"} -> 4
    [] pdfVersion = "1.7ext3" -> 5
    [] OTHER -> 1

\* Number of generateRandomWordArray calls the constructor makes.
SetupDraws(pdfVersion) == IF VersionOf(pdfVersion) = 5 THEN 6 ELSE 0

\* The revision, the key length and the permission flags of version v:
\* `switch (v)` of _setupEncryptionV1V2V4, and the first statements and
\* encDict.R of _setupEncryptionV5.
RevisionOf(v) == CASE v = 1 -> 2 [] v = 2 -> 3 [] v = 4 -> 4 [] v = 5 -> 5
KeyBitsOf(v) == CASE v = 1 -> 40 [] v = 2 -> 128 [] v = 4 -> 128 [] v = 5 -> 256
PermissionsOf(v, permissionObject) ==
  CASE v = 1 -> getPermissionsR2(permissionObject)
    [] v = 2 -> getPermissionsR3(permissionObject)
    [] v = 4 -> getPermissionsR3(permissionObject)
    [] v = 5 -> getPermissionsR3(permissionObject)

\* _setupEncryptionV1V2V4, the encDict entries it adds.
\* The V1/V2/V4 entries with the crypt filter added from version 2 on.
EncDictV1V2V4EarlyCF(v, permissions, ownerPasswordEntry, userPasswordEntry) ==
  LET entries == [V |-> v, R |-> RevisionOf(v), O |-> ownerPasswordEntry,
                  U |-> userPasswordEntry, P |-> permissions]
      withLength == IF v >= 2 THEN entries @@ [Length |-> KeyBitsOf(v)] ELSE entries
  IN IF v >= 2
     THEN withLength @@
          [CF |-> [StdCF |-> [AuthEvent |-> "DocOpen", CFM |-> "AESV2",
                              Length |-> KeyBitsOf(v) \div 8]],
           StmF |-> "StdCF", StrF |-> "StdCF"]
     ELSE withLength

EncDictV1V2V4(v, permissions, ownerPasswordEntry, userPasswordEntry) ==
  LET entries == [V |-> v, R |-> RevisionOf(v), O |-> ownerPasswordEntry,
                  U |-> userPasswordEntry, P |-> permissions]
      withLength == IF v >= 2 THEN entries @@ [Length |-> KeyBitsOf(v)] ELSE entries
  IN IF v = 4
     THEN withLength @@
          [CF |-> [StdCF |-> [AuthEvent |-> "DocOpen", CFM |-> "AESV2",
                              Length |-> KeyBitsOf(v) \div 8]],
           StmF |-> "StdCF", StrF |-> "StdCF"]
     ELSE withLength

\* _setupEncryptionV1V2V4 from the user password entry on.
UserEntryV1V2V4(v, documentId, permissions, ownerPasswordEntry, encryptionKey) ==
  After(encryptionKey, Return([keyBits |-> KeyBitsOf(v), encryptionKey |-> encryptionKey,
          encDict |->
            EncDictV1V2V4(v, permissions, ownerPasswordEntry,
                          IF RevisionOf(v) = 2 THEN getUserPasswordR2(encryptionKey)
                          ELSE getUserPasswordR3R4(documentId, encryptionKey))]))

\* _setupEncryptionV1V2V4 from the encryption key on.
EncryptionKeyV1V2V4(v, documentId, permissions, paddedUserPassword, ownerPasswordEntry) ==
  After(ownerPasswordEntry, UserEntryV1V2V4(v, documentId, permissions, ownerPasswordEntry,
                  getEncryptionKeyR2R3R4(RevisionOf(v), KeyBitsOf(v), documentId,
                                         paddedUserPassword, ownerPasswordEntry,
                                         permissions)))

\* _setupEncryptionV1V2V4 from the owner password entry on; owner is the
\* outcome of padding the owner password.
OwnerEntryV1V2V4(v, documentId, permissions, paddedUserPassword, owner) ==
  IF owner.threw THEN owner
  ELSE EncryptionKeyV1V2V4(v, documentId, permissions, paddedUserPassword,
                           getOwnerPasswordR2R3R4(RevisionOf(v), KeyBitsOf(v),
                                                  paddedUserPassword, owner.value))

\* _setupEncryptionV1V2V4 from the owner password's padding on; user is the
\* outcome of padding the user password.
PaddedOwnerV1V2V4(v, opts, documentId, permissions, user) ==
  IF user.threw THEN user
  ELSE After(permissions,
             OwnerEntryV1V2V4(v, documentId, permissions, user.value,
                              IF Truthy(opts.ownerPassword)
                              THEN processPasswordR2R3R4(opts.ownerPassword)
                              ELSE user))

\* _setupEncryptionV1V2V4(v, encDict, options): throws, or returns the
\* instance fields it sets and the entries it adds to encDict.
setupEncryptionV1V2V4(v, opts, documentId) ==
  PaddedOwnerV1V2V4(v, opts, documentId, PermissionsOf(v, opts.permissions),
                    processPasswordR2R3R4(opts.userPassword))

\* _setupEncryptionV5, the encDict entries it adds.
EncDictV5(permissions, ownerPasswordEntry, ownerEncryptionKeyEntry, userPasswordEntry, userEncryptionKeyEntry, permsEntry) ==
  [V |-> 5, Length |-> KeyBitsOf(5),
   CF |-> [StdCF |-> [AuthEvent |-> "DocOpen", CFM |-> "AESV3",
                      Length |-> KeyBitsOf(5) \div 8]],
   StmF |-> "StdCF", StrF |-> "StdCF", R |-> RevisionOf(5),
   O |-> ownerPasswordEntry, OE |-> ownerEncryptionKeyEntry,
   U |-> userPasswordEntry, UE |-> userEncryptionKeyEntry,
   P |-> permissions, Perms |-> permsEntry]

\* _setupEncryptionV5 from the owner key entry on.
OwnerKeyV5(permissions, processedUserPassword, processedOwnerPassword, encryptionKey, userPasswordEntry, ownerPasswordEntry, rnd) ==
  After(ownerPasswordEntry, Return([keyBits |-> KeyBitsOf(5), encryptionKey |-> encryptionKey,
          encDict |->
            EncDictV5(permissions, ownerPasswordEntry,
                      getOwnerEncryptionKeyR5(processedOwnerPassword,
                                              Slice(ownerPasswordEntry, 40, 48),
                                              userPasswordEntry, encryptionKey),
                      userPasswordEntry,
                      getUserEncryptionKeyR5(processedUserPassword,
                                             Slice(userPasswordEntry, 40, 48),
                                             encryptionKey),
                      getEncryptedPermissionsR5(permissions, encryptionKey, <<rnd[6]>>))]))

\* _setupEncryptionV5 from the owner password entry on.
OwnerEntryV5(permissions, processedUserPassword, processedOwnerPassword, encryptionKey, userPasswordEntry, rnd) ==
  After(encryptionKey, After(userPasswordEntry, OwnerKeyV5(permissions, processedUserPassword, processedOwnerPassword,
             encryptionKey, userPasswordEntry,
             getOwnerPasswordR5(processedOwnerPassword, userPasswordEntry,
                                <<rnd[4], rnd[5]>>),
             rnd)))

\* _setupEncryptionV5 from the encryption key on.
EncryptionKeyV5(permissions, processedUserPassword, processedOwnerPassword, rnd) ==
  After(processedOwnerPassword, OwnerEntryV5(permissions, processedUserPassword, processedOwnerPassword,
               getEncryptionKeyR5(<<rnd[1]>>),
               getUserPasswordR5(processedUserPassword, <<rnd[2], rnd[3]>>),
               rnd))

\* _setupEncryptionV5 from the owner password's processing on.
ProcessedOwnerV5(opts, permissions, processedUserPassword, rnd) ==
  After(permissions, After(processedUserPassword, EncryptionKeyV5(permissions, processedUserPassword,
                  IF Truthy(opts.ownerPassword)
                  THEN processPasswordR5(opts.ownerPassword)
                  ELSE processedUserPassword,
                  rnd)))

\* _setupEncryptionV5(encDict, options); rnd are the entropy outcomes of
\* its six generateRandomWordArray calls, in call order.
setupEncryptionV5(opts, rnd) ==
  ProcessedOwnerV5(opts, PermissionsOf(5, opts.permissions),
                   processPasswordR5(opts.userPassword), rnd)

\* _setupEncryption, after the version switch: r is what the version's
\* setup returned.
SetupResult(version, r) ==
  IF r.threw THEN r
  ELSE Return([version |-> version, keyBits |-> r.value.keyBits,
               encryptionKey |-> r.value.encryptionKey,
               encDict |-> [Filter |-> "Standard"] @@ r.value.encDict])

\* The dispatch with version 4 falling into the version 5 case.
setupEncryptionV4AsV5(opts, documentId, rnd) ==
  SetupResult(VersionOf(opts.pdfVersion),
              IF VersionOf(opts.pdfVersion) >= 4 THEN setupEncryptionV5(opts, rnd)
              ELSE setupEncryptionV1V2V4(VersionOf(opts.pdfVersion), opts, documentId))

\* _setupEncryption(options) up to, and not including, document.ref(encDict).
setupEncryption(opts, documentId, rnd) ==
  SetupResult(VersionOf(opts.pdfVersion),
              IF VersionOf(opts.pdfVersion) = 5 THEN setupEncryptionV5(opts, rnd)
              ELSE setupEncryptionV1V2V4(VersionOf(opts.pdfVersion), opts, documentId))

\* document.ref(dict): registers dict as a new open indirect object; the
\* handle is the object's number, and ends counts the end() calls made on it.
DocumentRef(refs, dict) == Append(refs, [data |-> dict, state |-> "open", ends |-> 0])

\* A constructor that registers the dictionary before filling it, so that a
\* failed setup leaves an object behind.
ConstructedRefFirst(opts, refs, r) ==
  IF r.threw
  THEN [outcome |-> r.error, security |-> NoSecurity,
        refs |-> DocumentRef(refs, [Filter |-> "Standard"]), drawn |-> 0]
  ELSE [outcome |-> "instance",
        security |-> [constructed |-> TRUE,
                      version |-> r.value.version,
                      keyBits |-> r.value.keyBits,
                      encryptionKey |-> r.value.encryptionKey,
                      dictionary |-> Len(refs) + 1],
        refs |-> DocumentRef(refs, r.value.encDict),
        drawn |-> SetupDraws(opts.pdfVersion)]

\* The constructor after _setupEncryption returned or threw r.
Constructed(opts, refs, r) ==
  IF r.threw
  THEN [outcome |-> r.error, security |-> NoSecurity, refs |-> refs, drawn |-> 0]
  ELSE [outcome |-> "instance",
        security |-> [constructed |-> TRUE,
                      version |-> r.value.version,
                      keyBits |-> r.value.keyBits,
                      encryptionKey |-> r.value.encryptionKey,
                      dictionary |-> Len(refs) + 1],
        refs |-> DocumentRef(refs, r.value.encDict),
        drawn |-> SetupDraws(opts.pdfVersion)]

\* new PDFSecurity(document, options): the fields of the new instance, the
\* registry and the draw count after the call, and what the call returned.
PDFSecurityConstructor(opts, refs, documentId, rnd) ==
  IF ~Truthy(opts.ownerPassword) /\ ~Truthy(opts.userPassword)
  THEN [outcome |-> NoPasswordError, security |-> NoSecurity, refs |-> refs, drawn |-> 0]
  ELSE Constructed(opts, refs, setupEncryption(opts, documentId, rnd))

\* create without its password test: the constructor is always called.
PDFSecurityCreateUnguarded(opts, refs, documentId, rnd) ==
  PDFSecurityConstructor(opts, refs, documentId, rnd)

\* PDFSecurity.create(document, options).
PDFSecurityCreate(opts, refs, documentId, rnd) ==
  IF ~Truthy(opts.ownerPassword) /\ ~Truthy(opts.userPassword)
  THEN [outcome |-> "null", security |-> NoSecurity, refs |-> refs, drawn |-> 0]
  ELSE PDFSecurityConstructor(opts, refs, documentId, rnd)

\* A suffix whose fourth byte repeats the object number's low byte.
ObjectSuffixNoGen(obj, gen) ==
  << And255(obj), And255(ShiftRight(obj, 8)), And255(ShiftRight(obj, 16)),
     And255(obj), And255(ShiftRight(gen, 8)) >>

\* The 5-byte object/generation suffix appended to the file key.
ObjectSuffix(obj, gen) ==
  << And255(obj), And255(ShiftRight(obj, 8)), And255(ShiftRight(obj, 16)),
     And255(gen), And255(ShiftRight(gen, 8)) >>

\* The md5 input without the marker of version 4.
Md5InputNoMarker(sec, obj, gen) ==
  concatBytes(<<sec.encryptionKey, ObjectSuffix(obj, gen)>>)

\* The bytes getEncryptFn hands to md5Hash for versions 1, 2 and 4.
Md5Input(sec, obj, gen) ==
  IF sec.version = 4
  THEN concatBytes(<<sec.encryptionKey, ObjectSuffix(obj, gen), <<115, 65, 108, 84>>>>)
  ELSE concatBytes(<<sec.encryptionKey, ObjectSuffix(obj, gen)>>)

\* getEncryptFn(obj, gen): the returned closure with the variables it
\* captured.  e is the entropy outcome of the IV draw, draw its number;
\* versions 1 and 2 return before the draw.
getEncryptFn(sec, obj, gen, e, draw) ==
  IF sec.version = 1 \/ sec.version = 2
  THEN LET keyLen == IF 16 < sec.keyBits \div 8 + 5 THEN 16 ELSE sec.keyBits \div 8 + 5
       IN [cipher |-> "rc4", obj |-> obj, gen |-> gen,
           key |-> Slice(md5Hash(Md5Input(sec, obj, gen)), 0, keyLen),
           iv |-> <<>>, ivDraw |-> 0]
  ELSE [cipher |-> "aes", obj |-> obj, gen |-> gen,
        key |-> IF sec.version = 4 THEN md5Hash(Md5Input(sec, obj, gen))
                ELSE sec.encryptionKey,
        iv |-> randomBytes(16, e), ivDraw |-> draw]

\* Calling the closure returned by getEncryptFn on a buffer.
Encryptor(fn, buffer) ==
  IF fn.cipher = "rc4" THEN rc4(buffer, fn.key)
  ELSE concatBytes(<<fn.iv, aesCbcEncrypt(buffer, fn.key, fn.iv, TRUE)>>)

\* An encryptor that ciphers in place: the caller's buffer holds the first
\* bytes of the output afterwards.
EncryptorCallInPlace(fn, buffer) ==
  [output |-> Encryptor(fn, buffer),
   buffer |-> Slice(Encryptor(fn, buffer), 0, Len(buffer))]

\* A call of the closure with the caller's buffer: the cipher runs on
\* new Uint8Array(buffer), a copy, and writes only arrays of its own; the
\* result is the returned Buffer and the caller's buffer after the call.
EncryptorCall(fn, buffer) ==
  [output |-> Encryptor(fn, buffer), buffer |-> buffer]

\* String(number) as the template literal applies it to an integer: the
\* decimal digits, with '-' before a negative one.
RECURSIVE Digits(_)
Digits(n) == IF n < 10 THEN <<48 + n>> ELSE Append(Digits(n \div 10), 48 + (n % 10))
NumberToString(n) == IF n < 0 THEN <<45>> \o Digits(0 - n) ELSE Digits(n)

\* The values of info entries: a Date (its time in ms), a string, a number.
DateValue(ms) == [kind |-> "date", number |-> ms, chars |-> <<>>]
StringValue(chars) == [kind |-> "string", number |-> 0, chars |-> chars]
NumberValue(n) == [kind |-> "number", number |-> n, chars |-> <<>>]

\* `${value.valueOf()}`: a Date gives its time value, a string itself.
ValueText(value) ==
  IF value.kind = "string" THEN value.chars ELSE NumberToString(value.number)

\* "CreationDate" as code units.
KeyCreationDate == <<67, 114, 101, 97, 116, 105, 111, 110, 68, 97, 116, 101>>

\* Whether a property key is an array index (a canonical decimal numeral),
\* and its number.
IsArrayIndex(key) ==
  /\ Len(key) > 0
  /\ \A i \in 1..Len(key) : key[i] \in 48..57
  /\ Len(key) = 1 \/ key[1] # 48
RECURSIVE IndexValue(_)
IndexValue(key) ==
  IF key = <<>> THEN 0
  ELSE 10 * IndexValue(SubSeq(key, 1, Len(key) - 1)) + (key[Len(key)] - 48)

\* Entries with array-index keys in ascending numeric order.
RECURSIVE Ascending(_)
Ascending(entries) ==
  IF entries = <<>> THEN <<>>
  ELSE LET m == CHOOSE i \in 1..Len(entries) :
                  \A j \in 1..Len(entries) :
                    IndexValue(entries[i].key) <= IndexValue(entries[j].key)
       IN <<entries[m]>> \o
          Ascending(SubSeq(entries, 1, m - 1) \o SubSeq(entries, m + 1, Len(entries)))

\* for (let key in info): the own array-index keys in ascending order, the
\* other own keys in insertion order, then the inherited enumerable keys;
\* each entry is tagged with what info.hasOwnProperty(key) answers.
ForIn(info) ==
  [i \in 1..Len(info.own) |->
     [key |-> (Ascending(SelectSeq(info.own, LAMBDA en : IsArrayIndex(en.key))) \o
               SelectSeq(info.own, LAMBDA en : ~IsArrayIndex(en.key)))[i].key,
      value |-> (Ascending(SelectSeq(info.own, LAMBDA en : IsArrayIndex(en.key))) \o
                 SelectSeq(info.own, LAMBDA en : ~IsArrayIndex(en.key)))[i].value,
      hasOwnProperty |-> TRUE]] \o
  [i \in 1..Len(info.inherited) |->
     [key |-> info.inherited[i].key, value |-> info.inherited[i].value,
      hasOwnProperty |-> FALSE]]

\* `${key}: ${info[key].valueOf()}\n`
InfoLine(entry) == entry.key \o <<58, 32>> \o ValueText(entry.value) \o <<10>>

\* The loop without its hasOwnProperty test.
RECURSIVE InfoLinesAll(_, _)
InfoLinesAll(keys, k) ==
  IF k > Len(keys) THEN <<>>
  ELSE InfoLine(keys[k]) \o InfoLinesAll(keys, k + 1)

\* The loop over the keys, from the k-th enumerated key on.
RECURSIVE InfoLines(_, _)
InfoLines(keys, k) ==
  IF k > Len(keys) THEN <<>>
  ELSE IF ~keys[k].hasOwnProperty THEN InfoLines(keys, k + 1)
  ELSE InfoLine(keys[k]) \o InfoLines(keys, k + 1)

\* info.CreationDate: the own property, else the inherited one.
HasCreationDate(info) ==
  \E i \in 1..Len(info.own \o info.inherited) :
    (info.own \o info.inherited)[i].key = KeyCreationDate
CreationDateOf(info) ==
  (info.own \o info.inherited)[
    CHOOSE i \in 1..Len(info.own \o info.inherited) :
      /\ (info.own \o info.inherited)[i].key = KeyCreationDate
      /\ \A j \in 1..(i - 1) : (info.own \o info.inherited)[j].key # KeyCreationDate].value

\* The text generateFileID hashes.
InfoStr(info) ==
  NumberToString(CreationDateOf(info).number) \o <<10>> \o InfoLines(ForIn(info), 1)

\* PDFSecurity.generateFileID(info): throws a TypeError when
\* info.CreationDate is undefined.
generateFileID(info) ==
  IF ~HasCreationDate(info) THEN Throw("TypeError")
  ELSE Return(md5Hash(Utf8(InfoStr(info))))

---------------------------------------------------------------------------
(* The document core (lib/document.js, lib/reference.js): the registry of  *)
(* indirect objects, the byte sink with its running count, and the         *)
(* assembler run by document.end().  A dictionary is modelled by the set   *)
(* of object numbers it references, a payload by its length, and the sink  *)
(* by its byte count and the list of objects emitted into it.              *)

\* "%PDF-1.3\n" and the comment line "%" + four bytes >= 0x80 + "\n".
HeaderLength == 15

\* "\nendobj\n"
EndobjLength == 8

\* "\nstream\n" and "\nendstream" around a stream payload.
StreamWrapLength == 18

\* One cross-reference entry "OOOOOOOOOO GGGGG n \n".
XrefEntryLength == 20

\* The registry and sink of a document before anything was allocated: the
\* header is the first thing in the file.
EmptyDocument ==
  [counter |-> 0, objects |-> <<>>, offset |-> HeaderLength, emitted |-> <<>>,
   phase |-> "open", error |-> "none", ignored |-> 0,
   startxref |-> -1, xref |-> <<>>, size |-> -1,
   pages |-> 0, outlineRoot |-> 0, outlineItems |-> 0,
   PageMode |-> "undefined"]

\* The object numbers allocated so far.
Numbers(doc) == 1..Len(doc.objects)

\* The still-open objects of the registry.
OpenNumbers(doc) == {n \in Numbers(doc) : doc.objects[n].state = "open"}

\* ref(dict) numbering from the counter's old value, so that the first
\* object is number 0.
refNumberedFromCounter(doc, kind, refs, spawns) ==
  [doc EXCEPT !.counter = @ + 1,
              !.objects = Append(@, [number |-> doc.counter, generation |-> 0,
                                     kind |-> kind, state |-> "open",
                                     offset |-> -1, refs |-> refs,
                                     payload |-> 0, spawns |-> spawns])]

\* ref(dict): the next object number, generation 0, state open; nothing is
\* written to the sink.
ref(doc, kind, refs, spawns) ==
  [doc EXCEPT !.counter = @ + 1,
              !.objects = Append(@, [number |-> doc.counter + 1, generation |-> 0,
                                     kind |-> kind, state |-> "open",
                                     offset |-> -1, refs |-> refs,
                                     payload |-> 0, spawns |-> spawns])]

\* handle.write(bytes) on an open stream: the bytes join the pending payload.
\* On a written object the call is ignored.
write(doc, n, len) ==
  IF doc.objects[n].state = "open"
  THEN [doc EXCEPT !.objects[n].payload = @ + len]
  ELSE [doc EXCEPT !.ignored = @ + 1]

\* The dictionary of an open object is mutated in place: a reference to
\* object m is inserted.
mutate(doc, n, m) == [doc EXCEPT !.objects[n].refs = @ \cup {m}]

\* The serialized length of an object: "N G obj\n", the dictionary with its
\* references "M 0 R", the stream payload, "\nendobj\n".
ObjectLength(o) ==
  Len(NumberToString(o.number)) + 7
  + 6 + 10 * Cardinality(o.refs)
  + (IF o.kind = "stream" THEN StreamWrapLength + o.payload ELSE 0)
  + EndobjLength

\* What the sink received for an object: where, how long, and the
\* references and payload length that were serialized.
Emission(doc, o) ==
  [number |-> o.number, at |-> doc.offset, length |-> ObjectLength(o),
   refs |-> o.refs, payload |-> o.payload]

\* handle.end() that emits on every call.
endAgain(doc, n) ==
  [doc EXCEPT !.objects[n].state = "written",
              !.objects[n].offset = doc.offset,
              !.emitted = Append(@, Emission(doc, doc.objects[n])),
              !.offset = @ + ObjectLength(doc.objects[n])]

\* handle.end(): the first call records the sink offset and emits the
\* object; once written, the call is ignored.
end(doc, n) ==
  IF doc.objects[n].state = "open"
  THEN [doc EXCEPT !.objects[n].state = "written",
                   !.objects[n].offset = doc.offset,
                   !.emitted = Append(@, Emission(doc, doc.objects[n])),
                   !.offset = @ + ObjectLength(doc.objects[n])]
  ELSE [doc EXCEPT !.ignored = @ + 1]

\* Finalization of one still-open object by the assembler: an object whose
\* finalization needs a further object (a page's resources, an outline
\* root's items) allocates it with ref and references it, then ends.
finalize(doc, n) ==
  IF doc.objects[n].spawns = 0 THEN end(doc, n)
  ELSE end(mutate([ref(doc, "dictionary", {}, 0) EXCEPT !.objects[n].spawns = 0],
                  n, doc.counter + 1), n)

\* The lowest still-open object number.
FirstOpen(doc) == CHOOSE n \in OpenNumbers(doc) : \A m \in OpenNumbers(doc) : n <= m

\* One pass over the objects that were open when the pass began.
RECURSIVE FinalizeAll(_)
RECURSIVE FinalizePass(_, _)
FinalizePass(doc, todo) ==
  IF todo = {} THEN doc
  ELSE LET n == CHOOSE k \in todo : \A m \in todo : k <= m
       IN FinalizePass(finalize(doc, n), todo \ {n})

\* Finalization in a single pass, without looking for new open objects.
FinalizeAllOnePass(doc) == FinalizePass(doc, OpenNumbers(doc))

\* Finalize every still-open object, until no open object remains.
FinalizeAll(doc) ==
  IF OpenNumbers(doc) = {} THEN doc
  ELSE FinalizeAll(finalize(doc, FirstOpen(doc)))

\* The xref table: "xref\n", "0 <count>\n", the entry of object 0 and one
\* entry per object in number order, built from the recorded offsets.
XrefOffsets(doc) == [n \in Numbers(doc) |-> doc.objects[n].offset]

\* The number of xref entries without the entry of object 0.
XrefCountMissingZero(doc) == Len(doc.objects)

\* The number of xref entries: object 0 and every allocated object.
XrefCount(doc) == Len(doc.objects) + 1

XrefLength(doc) ==
  5 + 2 + Len(NumberToString(XrefCount(doc))) + 1 + XrefEntryLength * XrefCount(doc)

\* "trailer\n<< /Size <count> /Root R /Info I >>\n" and
\* "startxref\n<offset>\n%%EOF\n" (a stand-in for their lengths).
TrailerLength(doc) == 40 + Len(NumberToString(XrefCount(doc)))

\* endOutline with the catalog's PageMode always overwritten.
endOutlineOverwrite(doc) ==
  IF doc.outlineItems = 0 THEN doc
  ELSE [mutate(doc, 1, doc.outlineRoot) EXCEPT !.PageMode = "UseOutlines"]

\* document.end(), outline part: when the outline has items the catalog
\* references the outline root, and PageMode becomes 'UseOutlines' unless a
\* PageMode was already set.
endOutline(doc) ==
  IF doc.outlineItems = 0 THEN doc
  ELSE [mutate(doc, 1, doc.outlineRoot)
          EXCEPT !.PageMode = IF @ = "undefined" THEN "UseOutlines" ELSE @]

\* outline.addItem(title): the outline root is allocated on first use; the
\* item is an object of its own that references the root and is referenced
\* by it.
WithOutlineRoot(doc) ==
  IF doc.outlineRoot # 0 THEN doc
  ELSE [ref(doc, "outline", {}, 0) EXCEPT !.outlineRoot = doc.counter + 1]

ItemAdded(doc) ==
  [mutate(ref(doc, "outlineItem", {doc.outlineRoot}, 0), doc.outlineRoot, doc.counter + 1)
     EXCEPT !.outlineItems = @ + 1]

addItem(doc) == ItemAdded(WithOutlineRoot(doc))

\* The assembler after every object was finalized: startxref is the current
\* offset, then the xref table and the trailer go to the sink.
Assembled(doc) ==
  [doc EXCEPT !.phase = "ended",
              !.startxref = doc.offset,
              !.xref = XrefOffsets(doc),
              !.size = XrefCount(doc),
              !.offset = @ + XrefLength(doc) + TrailerLength(doc)]

\* document.end(): fatal without a page; otherwise the open objects are
\* finalized and the xref table and trailer are written.
documentEnd(doc) ==
  IF doc.pages = 0 THEN [doc EXCEPT !.phase = "failed", !.error = "EmptyDocument"]
  ELSE Assembled(FinalizeAll(endOutline(doc)))

\* new PDFDocument: the catalog, the pages tree and the info dictionary
\* are allocated, then the catalog references the pages tree.
NewDocument ==
  mutate(ref(ref(ref(EmptyDocument, "catalog", {}, 0), "pages", {}, 0), "info", {}, 0),
         1, 2)

---------------------------------------------------------------------------
(* lib/image/jpeg.js: the EXIF orientation parser and the JPEG constructor. *)
(* Offsets are 0-based as in the code; data[pos] is ByteAt(data, pos).      *)

SOI == 65496          \* 0xffd8
SOS == 65498          \* 0xffda
RST0 == 65488         \* 0xffd0
EOI == 65497          \* 0xffd9
TEM == 65281          \* 0xff01
APP1 == 65505         \* 0xffe1
TiffMagic == 42
OrientationTag == 274 \* 0x0112

\* jpeg.js lines 78-81.
MARKERS ==
  {65472, 65473, 65474, 65475, 65477, 65478, 65479, 65480, 65481,
   65482, 65483, 65484, 65485, 65486, 65487}

\* jpeg.js lines 83-87; a missing key gives undefined.
COLOR_SPACE_MAP(channels) ==
  CASE channels = 1 -> "DeviceGray"
    [] channels = 3 -> "DeviceRGB"
    [] channels = 4 -> "DeviceCMYK"
    [] OTHER -> "undefined"

\* data[pos] for pos inside the buffer.
ByteAt(data, pos) == data[pos + 1]

\* Whether readUInt16BE / readUInt32BE(pos) of n bytes stays in the buffer
\* (otherwise Buffer throws a RangeError).
InRange(data, pos, n) == pos >= 0 /\ pos + n <= Len(data)

readUInt16BE(data, pos) == 256 * ByteAt(data, pos) + ByteAt(data, pos + 1)

readUInt16LE(data, pos) == ByteAt(data, pos) + 256 * ByteAt(data, pos + 1)

readUInt32BE(data, pos) == 65536 * readUInt16BE(data, pos) + readUInt16BE(data, pos + 2)

readUInt32LE(data, pos) == readUInt16LE(data, pos) + 65536 * readUInt16LE(data, pos + 2)

\* jpeg.js lines 42-47: the readers chosen by the byte order.
read16(data, isLittleEndian, o) ==
  IF isLittleEndian THEN readUInt16LE(data, o) ELSE readUInt16BE(data, o)

read32(data, isLittleEndian, o) ==
  IF isLittleEndian THEN readUInt32LE(data, o) ELSE readUInt32BE(data, o)

\* jpeg.js lines 13 and 104: the first position from pos on that holds 0xff,
\* or the length of the buffer.
SkipPadding(data, pos) ==
  LET stops == {p \in pos..(Len(data) - 1) : ByteAt(data, p) = 255} \cup {Len(data)}
  IN CHOOSE p \in stops : \A q \in stops : p <= q

\* 'Exif\x00\x00'
ExifHeader == <<69, 120, 105, 102, 0, 0>>

\* 'II' and 'MM'
ByteOrderII == <<73, 73>>
ByteOrderMM == <<77, 77>>

\* The result of parseExifOrientation: null, or an orientation.
Null == [isNull |-> TRUE, value |-> 0]
Orientation(value) == [isNull |-> FALSE, value |-> value]

\* jpeg.js line 65 accepting every tag value.
OrientationValueAny(value) == Orientation(value)

\* jpeg.js line 65: return value >= 1 && value <= 8 ? value : null.
OrientationValue(value) == IF value >= 1 /\ value <= 8 THEN Orientation(value) ELSE Null

\* jpeg.js lines 59-68: the scan of the IFD entries from entry i on.
RECURSIVE ScanEntries(_, _, _, _, _)
ScanEntries(data, isLittleEndian, ifdPos, entryCount, i) ==
  IF ~(i < entryCount) THEN Null
  ELSE LET entryPos == ifdPos + 2 + i * 12
       IN IF entryPos + 12 > Len(data) THEN Null
          ELSE IF read16(data, isLittleEndian, entryPos) = OrientationTag
          THEN OrientationValue(read16(data, isLittleEndian, entryPos + 8))
          ELSE ScanEntries(data, isLittleEndian, ifdPos, entryCount, i + 1)

\* jpeg.js lines 52-68: IFD0 of a TIFF block with a known byte order.
ScanIfd(data, isLittleEndian, tiffStart) ==
  IF read16(data, isLittleEndian, tiffStart + 2) # TiffMagic THEN Null
  ELSE LET ifdPos == tiffStart + read32(data, isLittleEndian, tiffStart + 4)
       IN IF ifdPos + 2 > Len(data) THEN Null
          ELSE ScanEntries(data, isLittleEndian, ifdPos,
                           read16(data, isLittleEndian, ifdPos), 0)

\* jpeg.js lines 32-68: the TIFF block of an Exif APP1 segment.
ScanTiff(data, tiffStart) ==
  IF tiffStart + 8 > Len(data) THEN Null
  ELSE LET byteOrder == Slice(data, tiffStart, tiffStart + 2)
       IN IF byteOrder # ByteOrderII /\ byteOrder # ByteOrderMM THEN Null
          ELSE ScanIfd(data, byteOrder = ByteOrderII, tiffStart)

\* jpeg.js lines 11-73: the segment loop from position pos on.
RECURSIVE ScanSegments(_, _)
ScanSegments(data, pos) ==
  IF ~(pos < Len(data) - 4) THEN Null
  ELSE LET p == SkipPadding(data, pos)
       IN IF p >= Len(data) - 4 THEN Null
          ELSE LET marker == readUInt16BE(data, p)
                   q == p + 2
               IN IF marker = SOS THEN Null
                  ELSE IF (marker >= RST0 /\ marker <= EOI) \/ marker = TEM
                  THEN ScanSegments(data, q)
                  ELSE IF q + 2 > Len(data) THEN Null
                  ELSE IF /\ marker = APP1
                          /\ q + 8 <= Len(data)
                          /\ Slice(data, q + 2, q + 8) = ExifHeader
                  THEN ScanTiff(data, q + 8)
                  ELSE ScanSegments(data, q + readUInt16BE(data, q))

\* jpeg.js lines 6-76.
parseExifOrientation(data) ==
  IF Len(data) < 20 THEN Null ELSE ScanSegments(data, 2)

\* jpeg.js lines 101-113: the constructor's scan for a frame marker; the
\* result is the position after the marker and the marker read last
\* (0 when none was read), or a RangeError of a read outside the buffer.
RECURSIVE ScanFrame(_, _, _)
ScanFrame(data, pos, marker) ==
  IF ~(pos < Len(data)) THEN Return([pos |-> pos, marker |-> marker])
  ELSE LET p == SkipPadding(data, pos)
       IN IF p >= Len(data) THEN Return([pos |-> p, marker |-> marker])
          ELSE IF ~InRange(data, p, 2) THEN Throw("RangeError")
          ELSE LET m == readUInt16BE(data, p)
               IN IF m \in MARKERS THEN Return([pos |-> p + 2, marker |-> m])
                  ELSE IF ~InRange(data, p + 2, 2) THEN Throw("RangeError")
                  ELSE ScanFrame(data, p + 2 + readUInt16BE(data, p + 2), m)

\* What one iteration of a scan loop does: it stays in the loop, or leaves
\* it by break, return or throw, at a position, with the marker read last
\* and the value returned.
Stay(pos, marker) == [exit |-> "stay", pos |-> pos, marker |-> marker, value |-> Null]
Break(pos, marker) == [exit |-> "break", pos |-> pos, marker |-> marker, value |-> Null]
ReturnAt(pos, marker, value) == [exit |-> "return", pos |-> pos, marker |-> marker, value |-> value]
ThrowAt(pos, marker) == [exit |-> "throw", pos |-> pos, marker |-> marker, value |-> Null]

\* jpeg.js lines 15-72: the iteration of parseExifOrientation's loop from
\* the marker read at q - 2 on; q is the position after the marker.
ExifSegment(data, q, marker) ==
  IF marker = SOS THEN ReturnAt(q, marker, Null)
  ELSE IF (marker >= RST0 /\ marker <= EOI) \/ marker = TEM THEN Stay(q, marker)
  ELSE IF q + 2 > Len(data) THEN ReturnAt(q, marker, Null)
  ELSE IF /\ marker = APP1
          /\ q + 8 <= Len(data)
          /\ Slice(data, q + 2, q + 8) = ExifHeader
  THEN ReturnAt(q, marker, ScanTiff(data, q + 8))
  ELSE Stay(q + readUInt16BE(data, q), marker)

\* jpeg.js lines 12-72: one iteration of parseExifOrientation's loop,
\* entered at pos.
ExifPadding(data, p) ==
  IF p >= Len(data) - 4 THEN ReturnAt(p, 0, Null)
  ELSE ExifSegment(data, p + 2, readUInt16BE(data, p))
ExifIteration(data, pos) == ExifPadding(data, SkipPadding(data, pos))

\* The constructor's iteration not counting the two bytes of the marker.
FrameSegmentNoAdvance(data, q, marker) ==
  IF marker \in MARKERS THEN Break(q, marker)
  ELSE IF ~InRange(data, q, 2) THEN ThrowAt(q, marker)
  ELSE Stay(q - 2 + readUInt16BE(data, q), marker)

\* jpeg.js lines 106-111: the iteration of the constructor's loop from the
\* marker read at q - 2 on.
FrameSegment(data, q, marker) ==
  IF marker \in MARKERS THEN Break(q, marker)
  ELSE IF ~InRange(data, q, 2) THEN ThrowAt(q, marker)
  ELSE Stay(q + readUInt16BE(data, q), marker)

\* jpeg.js lines 102-111: one iteration of the constructor's loop, entered
\* at pos with the marker read last.
FramePadding(data, p, marker) ==
  IF p >= Len(data) THEN Break(p, marker)
  ELSE IF ~InRange(data, p, 2) THEN ThrowAt(p, marker)
  ELSE FrameSegment(data, p + 2, readUInt16BE(data, p))
FrameIteration(data, pos, marker) == FramePadding(data, SkipPadding(data, pos), marker)

\* jpeg.js lines 118-130: the fields read after the frame marker at pos.
FrameFields(data, pos, orientation) ==
  IF ~InRange(data, pos + 3, 2) \/ ~InRange(data, pos + 5, 2) THEN Throw("RangeError")
  ELSE Return([data |-> data, orientation |-> orientation,
               bits |-> ByteAt(data, pos + 2),
               height |-> readUInt16BE(data, pos + 3),
               width |-> readUInt16BE(data, pos + 5),
               colorSpace |-> IF pos + 7 < Len(data)
                              THEN COLOR_SPACE_MAP(ByteAt(data, pos + 7))
                              ELSE "undefined",
               obj |-> "null"])

\* jpeg.js line 99: parseExifOrientation(this.data) || 1.
OrElseOne(parsed) == IF parsed.isNull \/ parsed.value = 0 THEN 1 ELSE parsed.value

\* jpeg.js lines 90-131: new JPEG(data, label).
JPEG(data) ==
  IF ~InRange(data, 0, 2) THEN Throw("RangeError")
  ELSE IF readUInt16BE(data, 0) # SOI THEN Throw("SOI not found in JPEG")
  ELSE LET scan == ScanFrame(data, 2, 0)
       IN IF scan.threw THEN scan
          ELSE IF scan.value.marker \notin MARKERS THEN Throw("Invalid JPEG.")
          ELSE FrameFields(data, scan.value.pos, OrElseOne(parseExifOrientation(data)))

\* A value that is not null.
NonNull(value) == [isNull |-> FALSE, value |-> value]

\* The byte length of a buffer handed to handle.end: nothing for null.
ByteLength(data) == IF data.isNull THEN 0 ELSE Len(data.value)

\* The instance the constructor leaves: its fields, with obj (null) and
\* data (the buffer) as nullable values.
Instance(jpeg) ==
  [bits |-> jpeg.bits, width |-> jpeg.width, height |-> jpeg.height,
   colorSpace |-> jpeg.colorSpace, orientation |-> jpeg.orientation,
   obj |-> Null, data |-> NonNull(jpeg.data)]

\* What an embed call did: the instance and the document after it, the
\* document.ref calls it made and the buffers it passed to handle.end.
Embedded(jpeg, doc, refCalls, endData) ==
  [jpeg |-> jpeg, document |-> doc, refCalls |-> refCalls, endData |-> endData]

\* embed without the test of this.obj.
embedAlways(jpeg, doc) ==
  Embedded([jpeg EXCEPT !.obj = NonNull(doc.counter + 1), !.data = Null],
           end(write(ref(doc, "stream", {}, 0), doc.counter + 1, ByteLength(jpeg.data)),
               doc.counter + 1),
           1, <<jpeg.data>>)

\* jpeg.js lines 133-159: embed(document).  The handle is the number of the
\* object document.ref allocated; end(data) writes the buffer and ends the
\* object.  The Decode entry of a CMYK image holds no reference and is not
\* part of the registry.
embed(jpeg, doc) ==
  IF ~jpeg.obj.isNull THEN Embedded(jpeg, doc, 0, <<>>)
  ELSE Embedded([jpeg EXCEPT !.obj = NonNull(doc.counter + 1), !.data = Null],
                end(write(ref(doc, "stream", {}, 0), doc.counter + 1, ByteLength(jpeg.data)),
                    doc.counter + 1),
                1, <<jpeg.data>>)

---------------------------------------------------------------------------
(* Inputs *)

\* "test", "user", "owner" as code units.
PwTest == String(<<116, 101, 115, 116>>)
PwUser == String(<<117, 115, 101, 114>>)
PwOwner == String(<<111, 119, 110, 101, 114>>)
\* "paĀ": a code unit above 0xFF among the first 32.
PwBadShort == String(<<112, 97, 256>>)
\* 33 code units, only the last one above 0xFF.
PwBadTail == String(Tuple([i \in 1..33 |-> IF i = 33 THEN 256 ELSE 97 + (i % 26)]))
\* an owner password of one code unit above 0xFF.
PwBadOwner == String(<<12354>>)

AllPermissions ==
  [printing |-> "highResolution", modifying |-> TRUE, copying |-> TRUE,
   annotating |-> TRUE, fillingForms |-> TRUE,
   contentAccessibility |-> TRUE, documentAssembly |-> TRUE]

PermissionObjects ==
  [printing : PrintingValues, modifying : BOOLEAN, copying : BOOLEAN,
   annotating : BOOLEAN, fillingForms : BOOLEAN,
   contentAccessibility : BOOLEAN, documentAssembly : BOOLEAN]

\* Options of the construction runs.
SetupOptions ==
  [pdfVersion : PdfVersions,
   userPassword : {AbsentString, String(<<>>), PwUser, PwBadShort, PwBadTail},
   ownerPassword : {AbsentString, PwOwner, PwBadOwner},
   permissions : {NoPermissions, AllPermissions}]

\* Options of the encryption runs.
EncryptOptions ==
  [pdfVersion : {"1.3", "1.4", "1.6", "1.7ext3"}, userPassword : {PwTest},
   ownerPassword : {AbsentString}, permissions : {NoPermissions}]

\* The entropy outcomes of the constructor's draws: independent per draw,
\* or one outcome shared by all draws.
SetupEntropy(opts) ==
  IF VersionOf(opts.pdfVersion) = 5 THEN [1..6 -> Entropy] ELSE {<<>>}
SharedEntropy(opts) ==
  IF VersionOf(opts.pdfVersion) = 5 THEN {Tuple([i \in 1..6 |-> e]) : e \in Entropy} ELSE {<<>>}

\* Options of the repeated constructions.
RepeatOptions ==
  [pdfVersion : PdfVersions, userPassword : {PwUser, PwBadShort},
   ownerPassword : {AbsentString, PwOwner},
   permissions : {NoPermissions, AllPermissions}]

\* What the entropy source would give to six draws, whether or not the
\* construction draws.
AvailableEntropy == {Tuple([i \in 1..6 |-> e]) : e \in Entropy}

\* (obj, gen) pairs handed to getEncryptFn in the key derivation runs: three
\* small ones, an object number of 2^24 + 1 and a generation of 2^16.
ObjectIds == {<<1, 0>>, <<2, 0>>, <<1, 1>>, <<16777217, 0>>, <<1, 65536>>}

\* (obj, gen) pairs handed to getEncryptFn in the encryption runs.
EncryptedIds == {<<1, 0>>, <<2, 1>>}

\* Versions whose setup computes the permission flags.
Versions == {1, 2, 4, 5}

\* The password of len code units i |-> (37 * i) % 256, with ch at
\* position pos (nowhere when pos = 0).
PasswordOf(len, pos, ch) ==
  String(Tuple([i \in 1..len |-> IF i = pos THEN ch ELSE (37 * i) % 256]))

\* Passwords handed to the padding routine: absent, or of any length up to
\* MaxPwLen with U+00FF or U+0100 at one position or nowhere.
PaddingPasswords ==
  {AbsentString} \cup
  {PasswordOf(len, pos, ch) : len \in 0..MaxPwLen, pos \in 0..MaxPwLen, ch \in {255, 256}}

\* The buffer of n bytes handed to an encryptor.
BufferOf(n) == Tuple([i \in 1..n |-> (37 * i + 11) % 256])
BufferLengths == {0, 1, 15, 16, MaxBufLen}

\* The mock document of the unit tests: _id = 1, 2, ..., 16.
DocumentIds == {Tuple([i \in 1..16 |-> i])}

\* Entries an info object may hold: CreationDate, Title, and the keys "2"
\* and "10".
InfoEntries ==
  {[key |-> KeyCreationDate, value |-> DateValue(ms)] : ms \in {86400000, -1000}} \cup
  {[key |-> <<84, 105, 116, 108, 101>>, value |-> StringValue(<<84, 101, 115, 116, d>>)] :
     d \in {49, 50}} \cup
  {[key |-> <<50>>, value |-> NumberValue(7)],
   [key |-> <<49, 48>>, value |-> StringValue(<<120>>)]}

\* "Producer" on the prototype of info.
InheritedEntries ==
  {<<>>, <<[key |-> <<80, 114, 111, 100, 117, 99, 101, 114>>, value |-> StringValue(<<112>>)]>>}

\* info objects: any insertion order of entries with distinct keys.
InfoObjects ==
  [own : {s \in UNION {[1..k -> InfoEntries] : k \in 0..4} :
            \A i, j \in 1..Len(s) : i # j => s[i].key # s[j].key},
   inherited : InheritedEntries]

\* Buffers and keys handed to rc4: buffers of 0, 1, 9 and MaxBufLen bytes,
\* keys of 1, 3, 5, 16 and 257 bytes ("Key" among them).
Rc4Buffers ==
  {Tuple([i \in 1..n |-> (a * i + b) % 256]) : n \in {0, 1, 9, MaxBufLen}, a \in {0, 37}, b \in {0, 255}}
Rc4Keys ==
  {<<75, 101, 121>>, <<0>>} \cup {Tuple([i \in 1..n |-> (91 * i + 3) % 256]) : n \in {5, 16, 257}}

\* A helper function called on its own: result is empty until the call
\* returns, then holds what it returned.
\* JPEG files as lists of segments, and their bytes.  An item is a segment
\* (or padding) of the file; an Exif item carries the parameters of its TIFF
\* block: byte order, magic number, IFD0 offset, IFD entries <<tag, value>>,
\* and whether the file ends before the segment is complete.
Item(kind) ==
  [kind |-> kind, order |-> "MM", magic |-> TiffMagic, ifd |-> 8,
   entries |-> <<>>, intact |-> TRUE]

Exif(order, magic, ifd, entries, intact) ==
  [kind |-> "exif", order |-> order, magic |-> magic, ifd |-> ifd,
   entries |-> entries, intact |-> intact]

U16(order, v) ==
  IF order = "II" THEN <<v % 256, v \div 256>> ELSE <<v \div 256, v % 256>>

U32(order, v) ==
  IF order = "II" THEN U16(order, v % 65536) \o U16(order, v \div 65536)
  ELSE U16(order, v \div 65536) \o U16(order, v % 65536)

\* A marker segment: marker, length (counting itself), payload.
Segment(marker, payload) ==
  U16("MM", marker) \o U16("MM", Len(payload) + 2) \o payload

\* One 12-byte IFD entry of type SHORT, count 1.
IfdEntry(order, entry) ==
  U16(order, entry[1]) \o U16(order, 3) \o U32(order, 1)
    \o U16(order, entry[2]) \o U16(order, 0)

\* The TIFF block: byte order, magic, IFD0 offset, IFD0 and the next-IFD
\* offset.
TiffBlock(e) ==
  (CASE e.order = "II" -> ByteOrderII [] e.order = "MM" -> ByteOrderMM
     [] OTHER -> <<88, 88>>)
    \o U16(e.order, e.magic) \o U32(e.order, e.ifd)
    \o U16(e.order, Len(e.entries))
    \o concatBytes([k \in 1..Len(e.entries) |-> IfdEntry(e.order, e.entries[k])])
    \o U32(e.order, 0)

\* The bytes of an item.  A frame segment is 8 bits, 500 x 375, 3 channels;
\* a file that ends inside an Exif segment lacks its last ten bytes.
ItemBytes(e) ==
  CASE e.kind = "exif" ->
         LET seg == Segment(APP1, ExifHeader \o TiffBlock(e))
         IN IF e.intact THEN seg ELSE SubSeq(seg, 1, Len(seg) - 10)
    [] e.kind = "xmp" -> Segment(APP1, <<104, 116, 116, 112, 58, 47, 47, 0>>)
    [] e.kind = "app0" -> Segment(65504, <<74, 70, 73, 70, 0, 1, 1, 0, 0, 1, 0, 1, 0, 0>>)
    [] e.kind = "sof" -> Segment(65472, <<8, 1, 244, 1, 119, 3, 1, 34, 0, 2, 17, 1, 3, 17, 1>>)
    [] e.kind = "sos" -> Segment(SOS, <<3, 1, 0, 2, 17, 3, 17, 0, 63, 0>>) \o <<18, 52, 86>> \o U16("MM", EOI)
    [] e.kind = "rst" -> U16("MM", RST0)
    [] e.kind = "pad" -> <<0, 0, 0>>

\* The bytes of a file: the SOI marker (or two other bytes) and the items.
FileBytes(file) ==
  (IF file.soi THEN U16("MM", SOI) ELSE <<0, 0>>)
    \o concatBytes([k \in 1..Len(file.items) |-> ItemBytes(file.items[k])])

File(items) == [soi |-> TRUE, items |-> items]

\* The tag of the Make entry, which is not the orientation.
MakeTag == 271

\* Exif segments: both byte orders with orientation values in and around
\* 1..8, the tag after another entry, no tag, a wrong byte order, a wrong
\* magic number, an IFD0 offset outside the file.
ExifVariants ==
  {Exif(order, TiffMagic, 8, <<<<OrientationTag, v>>>>, TRUE) :
     order \in {"II", "MM"}, v \in {0, 1, 6, 8, 9}}
  \cup {Exif(order, TiffMagic, 8, <<<<MakeTag, 6>>, <<OrientationTag, 3>>>>, TRUE) :
          order \in {"II", "MM"}}
  \cup {Exif("MM", TiffMagic, 8, <<>>, TRUE),
        Exif("II", TiffMagic, 8, <<<<MakeTag, 6>>>>, TRUE),
        Exif("XX", TiffMagic, 8, <<<<OrientationTag, 6>>>>, TRUE),
        Exif("II", 43, 8, <<<<OrientationTag, 6>>>>, TRUE),
        Exif("MM", 43, 8, <<<<OrientationTag, 6>>>>, TRUE),
        Exif("MM", TiffMagic, 65536, <<<<OrientationTag, 6>>>>, TRUE)}

\* Where the Exif segment lies in the file.
Layouts(e) ==
  {<<e, Item("sof"), Item("sos")>>,
   <<Item("app0"), e, Item("sof"), Item("sos")>>,
   <<Item("pad"), Item("app0"), Item("pad"), e, Item("pad"), Item("sof"), Item("sos")>>,
   <<Item("sof"), e, Item("sos")>>,
   <<Item("sof"), Item("sos"), e>>,
   <<Item("xmp"), e, Item("sof"), Item("sos")>>,
   <<Item("sof"), Item("rst"), e, Item("sos")>>,
   <<e, Item("sos")>>}

\* Files with one Exif segment, files with none, with two, a file that ends
\* inside its Exif segment, and a file without the SOI marker.
JpegFiles ==
  {File(items) : items \in UNION {Layouts(e) : e \in ExifVariants}}
  \cup {File(<<Item("sof")>>),
        File(<<Item("app0"), Item("sof"), Item("sos")>>),
        File(<<Exif("MM", 43, 8, <<<<OrientationTag, 3>>>>, TRUE),
               Exif("MM", TiffMagic, 8, <<<<OrientationTag, 6>>>>, TRUE),
               Item("sof"), Item("sos")>>),
        File(<<Exif("II", TiffMagic, 8, <<<<OrientationTag, 6>>>>, TRUE),
               Exif("MM", TiffMagic, 8, <<<<OrientationTag, 6>>>>, TRUE),
               Item("sof"), Item("sos")>>),
        File(<<Item("sof"), Exif("MM", TiffMagic, 8, <<<<OrientationTag, 6>>>>, FALSE)>>),
        [soi |-> FALSE, items |-> <<Item("sof"), Item("sos")>>]}

\* n copies of a byte sequence.
RECURSIVE Run(_, _)
Run(bytes, n) == IF n = 0 THEN <<>> ELSE bytes \o Run(bytes, n - 1)

\* An APP0 marker followed by a length field of 0.
ZeroLengthSegment == <<255, 224, 0, 0>>

\* Buffers of the header scans: the JPEG files, and buffers with runs of
\* zero-length segments, padding bytes, standalone markers and FF bytes,
\* with and without a frame, and buffers that end inside a marker or a
\* length field.
ScanBuffers ==
  {FileBytes(file) : file \in JpegFiles}
  \cup {U16("MM", SOI) \o Run(ZeroLengthSegment, n) \o tail :
          n \in 1..MaxRun,
          tail \in {ItemBytes(Item("sof")) \o ItemBytes(Item("sos")), Run(<<0>>, 8), <<>>}}
  \cup {U16("MM", SOI) \o Run(<<0>>, n) \o ItemBytes(Item("app0")) \o Run(<<0>>, n) \o tail :
          n \in 1..MaxRun,
          tail \in {ItemBytes(Item("sof")) \o ItemBytes(Item("sos")), <<255>>, <<255, 224>>}}
  \cup {U16("MM", SOI) \o Run(marker, n) \o ItemBytes(Item("sof")) \o ItemBytes(Item("sos")) :
          n \in 1..MaxRun, marker \in {U16("MM", RST0), U16("MM", TEM)}}
  \cup {U16("MM", SOI) \o Run(<<255>>, 18 + n) : n \in 1..MaxRun}
  \cup {<<>>, <<0, 0>>, U16("MM", SOI), U16("MM", SOI) \o <<255>>}

\* A frame segment of 8 bits, 500 x 375, with the given number of channels.
Frame(channels) ==
  Segment(65472, <<8, 1, 244, 1, 119, channels, 1, 34, 0, 2, 17, 1, 3, 17, 1>>)

\* Images to embed: gray, RGB and CMYK.
EmbedFiles ==
  {U16("MM", SOI) \o Frame(channels) \o ItemBytes(Item("sos")) : channels \in {1, 3, 4}}

NoCall == [fn |-> "none", args |-> <<>>, done |-> FALSE, result |-> <<>>]
CallOf(fn, args) == [fn |-> fn, args |-> args, done |-> FALSE, result |-> <<>>]
Returned(c, value) == [c EXCEPT !.done = TRUE, !.result = <<value>>]
NoEncryption == [n |-> 0, fn |-> 0, input |-> <<>>, output |-> <<>>, after |-> <<>>]

---------------------------------------------------------------------------
(* The state machine *)

\* A document without security and nothing encrypted.
Fresh ==
  /\ docId \in DocumentIds
  /\ docRefs = <<>>
  /\ options = [pdfVersion |-> "undefined", userPassword |-> AbsentString,
                ownerPassword |-> AbsentString, permissions |-> NoPermissions]
  /\ via = "none"
  /\ outcome = "none"
  /\ security = NoSecurity
  /\ draws = 0
  /\ encryptFns = <<>>
  /\ ivUses = <<>>
  /\ lastCall = NoEncryption
  /\ ended = 0
  /\ document = NewDocument

Init == Fresh /\ call = NoCall

\* The state after a create / constructor call that returned res.
Called(entry, opts, res) ==
  /\ via = "none"
  /\ via' = entry
  /\ options' = opts
  /\ outcome' = res.outcome
  /\ security' = res.security
  /\ docRefs' = res.refs
  /\ draws' = draws + res.drawn
  /\ ivUses' = ivUses \o Zeros(res.drawn)
  /\ UNCHANGED <<docId, encryptFns, lastCall, ended, call, document>>

New(opts, rnd) ==
  Called("new", opts, PDFSecurityConstructor(opts, docRefs, docId, rnd))

Create(opts, rnd) ==
  Called("create", opts, PDFSecurityCreate(opts, docRefs, docId, rnd))

GetEncryptFn(obj, gen, e) ==
  /\ outcome = "instance"
  /\ Len(encryptFns) < MaxFns
  /\ LET drawn == IF security.version >= 4 THEN 1 ELSE 0
     IN /\ encryptFns' = Append(encryptFns, getEncryptFn(security, obj, gen, e, draws + 1))
        /\ draws' = draws + drawn
        /\ ivUses' = ivUses \o Zeros(drawn)
  /\ UNCHANGED <<docId, docRefs, options, via, outcome, security, lastCall, ended, call, document>>

\* The record of encryptor call n: closure f, the buffer passed, what the
\* call returned and what the buffer holds afterwards.
Encrypted(n, f, buffer, res) ==
  [n |-> n, fn |-> f, input |-> buffer, output |-> res.output, after |-> res.buffer]

Encrypt(f, buffer) ==
  /\ f \in 1..Len(encryptFns)
  /\ lastCall.n < MaxCalls
  /\ lastCall' = Encrypted(lastCall.n + 1, f, buffer, EncryptorCall(encryptFns[f], buffer))
  /\ ivUses' = IF encryptFns[f].cipher = "aes"
               THEN [ivUses EXCEPT ![encryptFns[f].ivDraw] = @ + 1]
               ELSE ivUses
  /\ UNCHANGED <<docId, docRefs, options, via, outcome, security, draws,
                 encryptFns, ended, call, document>>

\* security.end(): this.dictionary.end().
End ==
  /\ outcome = "instance"
  /\ ended < MaxEnds
  /\ ended' = ended + 1
  /\ docRefs' = [docRefs EXCEPT ![security.dictionary].state = "written",
                                ![security.dictionary].ends = @ + 1]
  /\ UNCHANGED <<docId, options, via, outcome, security, draws, encryptFns,
                 ivUses, lastCall, call, document>>

\* Encryption runs: one configuration per version, then getEncryptFn and
\* encryptor calls in any order.
Next ==
  \/ \E opts \in EncryptOptions : \E rnd \in SharedEntropy(opts) : Create(opts, rnd)
  \/ \E id \in EncryptedIds : \E e \in Entropy :
       GetEncryptFn(id[1], id[2], IF security.version >= 4 THEN e ELSE 0)
  \/ \E f \in 1..MaxFns : \E n \in BufferLengths : Encrypt(f, BufferOf(n))

Spec == Init /\ [][Next]_vars

\* Key derivation runs: one configuration per version, then getEncryptFn
\* for several objects.
NextObjects ==
  \/ \E opts \in EncryptOptions : \E rnd \in SharedEntropy(opts) : Create(opts, rnd)
  \/ \E id \in ObjectIds : \E e \in Entropy :
       GetEncryptFn(id[1], id[2], IF security.version >= 4 THEN e ELSE 0)

SpecObjects == Init /\ [][NextObjects]_vars

\* Construction runs: every option combination through both entry points.
NextSetup ==
  \/ \E opts \in SetupOptions : \E rnd \in SetupEntropy(opts) : New(opts, rnd)
  \/ \E opts \in SetupOptions : \E rnd \in SetupEntropy(opts) : Create(opts, rnd)
  \/ End

SpecSetup == Init /\ [][NextSetup]_vars

\* Permission runs: the permission flags of one version for one permissions
\* object.
InitPermissions ==
  /\ Fresh
  /\ call \in {CallOf("PermissionsOf", <<v, p>>) : v \in Versions, p \in PermissionObjects}

CallPermissions ==
  /\ call.fn = "PermissionsOf"
  /\ ~call.done
  /\ call' = Returned(call, PermissionsOf(call.args[1], call.args[2]))
  /\ UNCHANGED <<docId, docRefs, options, via, outcome, security, draws,
                 encryptFns, ivUses, lastCall, ended, document>>

SpecPermissions == InitPermissions /\ [][CallPermissions]_vars

\* Padding runs: processPasswordR2R3R4 on one password.
InitPadding ==
  /\ Fresh
  /\ call \in {CallOf("processPasswordR2R3R4", <<pw>>) : pw \in PaddingPasswords}

CallPadding ==
  /\ call.fn = "processPasswordR2R3R4"
  /\ ~call.done
  /\ call' = Returned(call, processPasswordR2R3R4(call.args[1]))
  /\ UNCHANGED <<docId, docRefs, options, via, outcome, security, draws,
                 encryptFns, ivUses, lastCall, ended, document>>

SpecPadding == InitPadding /\ [][CallPadding]_vars

\* File ID runs: generateFileID on one info object.
InitFileID ==
  /\ Fresh
  /\ call \in {CallOf("generateFileID", <<info>>) : info \in InfoObjects}

CallFileID ==
  /\ call.fn = "generateFileID"
  /\ ~call.done
  /\ call' = Returned(call, generateFileID(call.args[1]))
  /\ UNCHANGED <<docId, docRefs, options, via, outcome, security, draws,
                 encryptFns, ivUses, lastCall, ended, document>>

SpecFileID == InitFileID /\ [][CallFileID]_vars

\* The state after a second constructor call that returned res; call holds
\* what it returned.
CalledAgain(res) ==
  /\ via # "none"
  /\ call = NoCall
  /\ call' = Returned(CallOf("PDFSecurity", <<options>>), res)
  /\ docRefs' = res.refs
  /\ draws' = draws + res.drawn
  /\ ivUses' = ivUses \o Zeros(res.drawn)
  /\ UNCHANGED <<docId, options, via, outcome, security, encryptFns, lastCall, ended, document>>

\* A second new PDFSecurity(document, options) on the same document with
\* the same options, under its own entropy.
NewAgain(rnd) ==
  CalledAgain(PDFSecurityConstructor(options, docRefs, docId, rnd))

\* Repeated constructions: the same options constructed twice.
NextRepeat ==
  \/ \E opts \in RepeatOptions : \E rnd \in AvailableEntropy : New(opts, rnd)
  \/ \E rnd \in AvailableEntropy : NewAgain(rnd)

SpecRepeat == Init /\ [][NextRepeat]_vars

\* RC4 runs: rc4(data, key), then rc4 of what it returned under the same
\* key; result holds the outputs of the calls made so far.
InitRc4 ==
  /\ Fresh
  /\ call \in {CallOf("rc4", <<data, key>>) : data \in Rc4Buffers, key \in Rc4Keys}

CallRc4 ==
  /\ call.fn = "rc4"
  /\ ~call.done
  /\ call' = Returned(call, rc4(call.args[1], call.args[2]))
  /\ UNCHANGED <<docId, docRefs, options, via, outcome, security, draws,
                 encryptFns, ivUses, lastCall, ended, document>>

CallRc4Back ==
  /\ call.fn = "rc4"
  /\ call.done
  /\ Len(call.result) = 1
  /\ call' = [call EXCEPT !.result = Append(@, rc4(call.result[1], call.args[2]))]
  /\ UNCHANGED <<docId, docRefs, options, via, outcome, security, draws,
                 encryptFns, ivUses, lastCall, ended, document>>

NextRc4 == CallRc4 \/ CallRc4Back

SpecRc4 == InitRc4 /\ [][NextRc4]_vars


---------------------------------------------------------------------------
(* The document core driven by its producers *)

\* The objects producers allocate: plain dictionaries and streams.
ProducerKinds == {"dictionary", "stream"}

\* The lengths of the chunks producers write.
PayloadLengths == {1, 2}

\* The objects whose handles producers hold and end themselves.
HandleKinds == ProducerKinds \cup {"page", "outlineItem"}

\* A producer allocates an object: document.ref(dict).
Ref(kind) ==
  /\ document.phase = "open"
  /\ document.counter < MaxObjects
  /\ document' = ref(document, kind, {}, 0)
  /\ UNCHANGED <<docId, docRefs, options, via, outcome, security, draws,
                 encryptFns, ivUses, lastCall, ended, call>>

\* addPage: a page object with its Parent, entered in the Kids of the pages
\* tree; its finalization allocates one more object.
AddPage ==
  /\ document.phase = "open"
  /\ document.counter < MaxObjects
  /\ document.objects[2].state = "open"
  /\ document' = [mutate(ref(document, "page", {2}, 1), 2, document.counter + 1)
                    EXCEPT !.pages = @ + 1]
  /\ UNCHANGED <<docId, docRefs, options, via, outcome, security, draws,
                 encryptFns, ivUses, lastCall, ended, call>>

\* handle.write(bytes) on a stream handle.
Write(n, len) ==
  /\ document.phase # "failed"
  /\ document.objects[n].kind = "stream"
  /\ IF document.objects[n].state = "open"
     THEN document.objects[n].payload + len <= MaxPayload
     ELSE document.ignored < MaxIgnored
  /\ document' = write(document, n, len)
  /\ UNCHANGED <<docId, docRefs, options, via, outcome, security, draws,
                 encryptFns, ivUses, lastCall, ended, call>>

\* handle.write(bytes) on a written object reported as a fatal producer
\* error: nothing reaches the sink.
WriteAfterEnd(n) ==
  /\ document.phase # "failed"
  /\ document.objects[n].kind = "stream"
  /\ document.objects[n].state = "written"
  /\ document' = [document EXCEPT !.phase = "failed", !.error = "WriteAfterEnd"]
  /\ UNCHANGED <<docId, docRefs, options, via, outcome, security, draws,
                 encryptFns, ivUses, lastCall, ended, call>>

\* A producer inserts a reference to a later object into the dictionary of
\* an open object of its own.
Mutate(n, m) ==
  /\ document.phase = "open"
  /\ document.objects[n].state = "open"
  /\ document.objects[n].kind \in ProducerKinds
  /\ n < m
  /\ m \notin document.objects[n].refs
  /\ document' = mutate(document, n, m)
  /\ UNCHANGED <<docId, docRefs, options, via, outcome, security, draws,
                 encryptFns, ivUses, lastCall, ended, call>>

\* handle.end() by a producer, on a handle it obtained from ref.
EndObject(n) ==
  /\ document.phase # "failed"
  /\ document.objects[n].kind \in HandleKinds
  /\ document.objects[n].state = "written" => document.ignored < MaxIgnored
  /\ document' = end(document, n)
  /\ UNCHANGED <<docId, docRefs, options, via, outcome, security, draws,
                 encryptFns, ivUses, lastCall, ended, call>>

\* doc._root.data.PageMode = mode.
SetPageMode(mode) ==
  /\ document.phase = "open"
  /\ document.objects[1].state = "open"
  /\ document.PageMode # mode
  /\ document' = [document EXCEPT !.PageMode = mode]
  /\ UNCHANGED <<docId, docRefs, options, via, outcome, security, draws,
                 encryptFns, ivUses, lastCall, ended, call>>

\* doc.outline.addItem(title): the outline root is allocated on first use,
\* the item is an object of its own referenced by the root.
AddItem ==
  /\ document.phase = "open"
  /\ document.outlineItems < MaxItems
  /\ document' = addItem(document)
  /\ UNCHANGED <<docId, docRefs, options, via, outcome, security, draws,
                 encryptFns, ivUses, lastCall, ended, call>>

\* document.end().
EndDocument ==
  /\ document.phase = "open"
  /\ document' = documentEnd(document)
  /\ UNCHANGED <<docId, docRefs, options, via, outcome, security, draws,
                 encryptFns, ivUses, lastCall, ended, call>>

\* The page modes a producer sets on the catalog.
PageModes == {"FullScreen", "UseThumbs"}

\* Producers allocating, filling and ending objects, and document.end().
NextDocument ==
  \/ \E kind \in ProducerKinds : Ref(kind)
  \/ AddPage
  \/ \E n \in Numbers(document) : \E len \in PayloadLengths : Write(n, len)
  \/ \E n \in Numbers(document) : WriteAfterEnd(n)
  \/ \E n \in Numbers(document) : \E m \in Numbers(document) : Mutate(n, m)
  \/ \E n \in Numbers(document) : EndObject(n)
  \/ EndDocument

SpecDocument == Init /\ [][NextDocument]_vars

\* A document with pages, a page mode and an outline, then document.end().
NextOutline ==
  \/ AddPage
  \/ \E mode \in PageModes : SetPageMode(mode)
  \/ AddItem
  \/ \E n \in Numbers(document) : EndObject(n)
  \/ EndDocument

SpecOutline == Init /\ [][NextOutline]_vars


\* JPEG files handed to the constructor: new JPEG(data, label).
InitJpeg ==
  /\ Fresh
  /\ call \in {CallOf("JPEG", <<file>>) : file \in JpegFiles}

CallJpeg ==
  /\ call.fn = "JPEG"
  /\ ~call.done
  /\ call' = Returned(call, JPEG(FileBytes(call.args[1])))
  /\ UNCHANGED <<docId, docRefs, options, via, outcome, security, draws,
                 encryptFns, ivUses, lastCall, ended, document>>

SpecJpeg == InitJpeg /\ [][CallJpeg]_vars


\* Header scans, one loop iteration per step: a call of
\* parseExifOrientation or of the JPEG constructor on a buffer, at its
\* entry, in its loop at a read position, after the loop, or done.
Scanning(fn, data) ==
  [fn |-> fn, args |-> <<data>>, done |-> FALSE, result |-> <<>>,
   at |-> "entry", pos |-> 0, marker |-> 0, orientation |-> 0]

Finished(c, pos, value) ==
  [c EXCEPT !.done = TRUE, !.result = <<value>>, !.at = "done", !.pos = pos]

\* The call after an iteration of parseExifOrientation's loop.
ExifNext(c, step) ==
  IF step.exit = "stay" THEN [c EXCEPT !.pos = step.pos, !.marker = step.marker]
  ELSE Finished(c, step.pos, step.value)

\* The call after an iteration of the constructor's loop.
FrameNext(c, step) ==
  CASE step.exit = "stay" -> [c EXCEPT !.pos = step.pos, !.marker = step.marker]
    [] step.exit = "break" -> [c EXCEPT !.pos = step.pos, !.marker = step.marker, !.at = "after"]
    [] OTHER -> Finished(c, step.pos, Throw("RangeError"))

InitScan ==
  /\ Fresh
  /\ call \in {Scanning(fn, data) : fn \in {"parseExifOrientation", "JPEG"}, data \in ScanBuffers}

\* jpeg.js lines 7-9.
EnterExif ==
  /\ call.fn = "parseExifOrientation"
  /\ call.at = "entry"
  /\ call' = IF Len(call.args[1]) < 20 THEN Finished(call, 0, Null)
             ELSE [call EXCEPT !.at = "loop", !.pos = 2]
  /\ UNCHANGED <<docId, docRefs, options, via, outcome, security, draws,
                 encryptFns, ivUses, lastCall, ended, document>>

\* jpeg.js lines 11-75: the loop condition and one iteration.
ExifLoop ==
  /\ call.fn = "parseExifOrientation"
  /\ call.at = "loop"
  /\ call' = IF ~(call.pos < Len(call.args[1]) - 4) THEN Finished(call, call.pos, Null)
             ELSE ExifNext(call, ExifIteration(call.args[1], call.pos))
  /\ UNCHANGED <<docId, docRefs, options, via, outcome, security, draws,
                 encryptFns, ivUses, lastCall, ended, document>>

\* jpeg.js lines 91-101.
EnterJpeg ==
  /\ call.fn = "JPEG"
  /\ call.at = "entry"
  /\ call' = IF ~InRange(call.args[1], 0, 2) THEN Finished(call, 0, Throw("RangeError"))
             ELSE IF readUInt16BE(call.args[1], 0) # SOI
             THEN Finished(call, 0, Throw("SOI not found in JPEG"))
             ELSE [call EXCEPT !.at = "loop", !.pos = 2,
                               !.orientation = OrElseOne(parseExifOrientation(call.args[1]))]
  /\ UNCHANGED <<docId, docRefs, options, via, outcome, security, draws,
                 encryptFns, ivUses, lastCall, ended, document>>

\* jpeg.js lines 102-112: the loop condition and one iteration.
FrameLoop ==
  /\ call.fn = "JPEG"
  /\ call.at = "loop"
  /\ call' = IF ~(call.pos < Len(call.args[1])) THEN [call EXCEPT !.at = "after"]
             ELSE FrameNext(call, FrameIteration(call.args[1], call.pos, call.marker))
  /\ UNCHANGED <<docId, docRefs, options, via, outcome, security, draws,
                 encryptFns, ivUses, lastCall, ended, document>>

\* jpeg.js lines 114-130.
FinishJpeg ==
  /\ call.fn = "JPEG"
  /\ call.at = "after"
  /\ call' = Finished(call, call.pos,
                      IF call.marker \notin MARKERS THEN Throw("Invalid JPEG.")
                      ELSE FrameFields(call.args[1], call.pos, call.orientation))
  /\ UNCHANGED <<docId, docRefs, options, via, outcome, security, draws,
                 encryptFns, ivUses, lastCall, ended, document>>

NextScan ==
  \/ EnterExif
  \/ ExifLoop
  \/ EnterJpeg
  \/ FrameLoop
  \/ FinishJpeg

SpecScan == InitScan /\ [][NextScan]_vars

\* A call runs to completion: the engine executes the next iteration
\* whenever there is one.
SpecScanFair == SpecScan /\ WF_vars(NextScan)

\* One image embedded into a document any number of times, among other
\* producers: the instance, the embed calls made so far, the document.ref
\* calls they made and the buffers they passed to handle.end.
Embedding(data) ==
  [fn |-> "embed", args |-> <<data>>, done |-> FALSE, result |-> <<>>,
   image |-> Instance(JPEG(data).value), embeds |-> 0, refCalls |-> 0, endData |-> <<>>]

InitEmbed ==
  /\ Fresh
  /\ call \in {Embedding(data) : data \in EmbedFiles}

\* The state after an embed call.
EmbedResult(res) ==
  /\ call' = [call EXCEPT !.image = res.jpeg, !.embeds = @ + 1,
                          !.refCalls = @ + res.refCalls,
                          !.endData = @ \o res.endData]
  /\ document' = res.document

\* image.embed(document).
Embed ==
  /\ call.fn = "embed"
  /\ document.phase = "open"
  /\ call.embeds < MaxEmbeds
  /\ call.image.obj.isNull => document.counter < MaxObjects
  /\ EmbedResult(embed(call.image, document))
  /\ UNCHANGED <<docId, docRefs, options, via, outcome, security, draws,
                 encryptFns, ivUses, lastCall, ended>>

\* An image embedded among other producers' objects, then document.end().
NextEmbed ==
  \/ Embed
  \/ AddPage
  \/ \E kind \in ProducerKinds : Ref(kind)
  \/ \E n \in Numbers(document) : EndObject(n)
  \/ EndDocument

SpecEmbed == InitEmbed /\ [][NextEmbed]_vars

\* The lifetime of a security handler: construction, then getEncryptFn
\* for the object 2 1, encryptor and end() calls in any order.
NextLifetime ==
  \/ \E opts \in EncryptOptions : \E rnd \in SharedEntropy(opts) : Create(opts, rnd)
  \/ \E e \in Entropy : GetEncryptFn(2, 1, IF security.version >= 4 THEN e ELSE 0)
  \/ \E f \in 1..MaxFns : \E n \in BufferLengths : Encrypt(f, BufferOf(n))
  \/ End

SpecLifetime == Init /\ [][NextLifetime]_vars

---------------------------------------------------------------------------
(* Properties *)

\* Whether a code unit above 0xFF is among the first 32 of a password.
WideInFirst32(str) ==
  \E i \in 1..Len(str.chars) : i <= 32 /\ str.chars[i] > 255

\* Whether a code unit above 0xFF is anywhere in a password.
WideAnywhere(str) ==
  \E i \in 1..Len(str.chars) : str.chars[i] > 255

\* C1: a constructed instance has (version, revision, key length in bits)
\* (1, 2, 40) for pdfVersion absent or '1.3', (2, 3, 128) for '1.4' and
\* '1.5', (4, 4, 128) for '1.6' and '1.7', (5, 5, 256) for '1.7ext3', and
\* the encryption dictionary's V and R carry the same version and revision.
C1_VersionTable ==
  outcome = "instance" =>
    /\ <<security.version, docRefs[security.dictionary].data.R, security.keyBits>> =
         ( CASE options.pdfVersion \in {"undefined", "1.3"} -> <<1, 2, 40>>
             [] options.pdfVersion \in {"1.4", "1.5"} -> <<2, 3, 128>>
             [] options.pdfVersion \in {"1.6", "1.7"} -> <<4, 4, 128>>
             [] options.pdfVersion = "1.7ext3" -> <<5, 5, 256>> )
    /\ docRefs[security.dictionary].data.V = security.version

\* C1: an instance constructed for pdfVersion '1.5'.
C1_Witness ==
  /\ outcome = "instance"
  /\ options.pdfVersion = "1.5"
  /\ security.version = 2
  /\ docRefs[security.dictionary].data.R = 3

\* C2, as stated: without a non-empty password create returns null, the
\* constructor throws the no-password error, and document.ref is not
\* called; with a non-empty password create returns an instance.
C2_CreateAlwaysInstance ==
  /\ (via # "none" /\ ~Truthy(options.userPassword) /\ ~Truthy(options.ownerPassword)) =>
       /\ via = "create" => outcome = "null"
       /\ via = "new" => outcome = NoPasswordError
       /\ docRefs = <<>>
  /\ (via = "create" /\ (Truthy(options.userPassword) \/ Truthy(options.ownerPassword))) =>
       outcome = "instance"

\* C2, amended: without a non-empty password create returns null, the
\* constructor throws the no-password error, and document.ref is not
\* called; with a non-empty password create never returns null: it returns
\* an instance whose dictionary is the one registered object, or the
\* constructor's invalid-password error leaves create, which happens only
\* below version 5 with a code unit above 0xFF in a password, and then
\* document.ref is not called.
C2_CreateNullOrConstructs ==
  /\ (via # "none" /\ ~Truthy(options.userPassword) /\ ~Truthy(options.ownerPassword)) =>
       /\ via = "create" => outcome = "null"
       /\ via = "new" => outcome = NoPasswordError
       /\ docRefs = <<>>
  /\ (via = "create" /\ (Truthy(options.userPassword) \/ Truthy(options.ownerPassword))) =>
       /\ outcome \in {"instance", InvalidPasswordError}
       /\ outcome = "instance" => Len(docRefs) = 1 /\ security.dictionary = 1
       /\ outcome = InvalidPasswordError =>
            /\ docRefs = <<>>
            /\ VersionOf(options.pdfVersion) # 5
            /\ WideAnywhere(options.userPassword) \/ WideAnywhere(options.ownerPassword)

\* C2: create called with a non-empty user password threw the
\* invalid-password error.
C2_Witness ==
  /\ via = "create"
  /\ Truthy(options.userPassword)
  /\ outcome = InvalidPasswordError

\* C3, as stated: below version 5 a construction with a code unit above
\* 0xFF anywhere in the user or owner password throws the invalid-password
\* error and leaves the document's registry unchanged.
C3_WideAnywhereThrows ==
  (/\ via # "none"
   /\ VersionOf(options.pdfVersion) # 5
   /\ WideAnywhere(options.userPassword) \/ WideAnywhere(options.ownerPassword)) =>
    /\ outcome = InvalidPasswordError
    /\ docRefs = <<>>

\* C3: a version 1 instance constructed from a user password whose only code
\* unit above 0xFF is its 33rd.
C3_Witness ==
  /\ outcome = "instance"
  /\ security.version = 1
  /\ WideAnywhere(options.userPassword)
  /\ ~WideInFirst32(options.userPassword)
  /\ Len(docRefs) = 1

\* C4, as stated: under versions 4 and 5 every encryptor invocation outputs
\* a 16-byte IV followed by the CBC ciphertext made with that IV, and no IV
\* draw is used by two invocations.
C4_FreshIvPerInvocation ==
  /\ (outcome = "instance" /\ security.version >= 4 /\ lastCall.n > 0) =>
       /\ Len(lastCall.output) >= 16
       /\ SubSeq(lastCall.output, 17, Len(lastCall.output)) =
            aesCbcEncrypt(lastCall.input, encryptFns[lastCall.fn].key,
                          SubSeq(lastCall.output, 1, 16), TRUE)
  /\ \A d \in 1..Len(ivUses) : ivUses[d] <= 1

\* C4: one encryptor invoked twice under version 4 or 5: both invocations
\* used the IV of the one draw made by getEncryptFn.
C4_Witness ==
  /\ outcome = "instance"
  /\ security.version >= 4
  /\ lastCall.n = 2
  /\ \E d \in 1..Len(ivUses) : ivUses[d] = 2

\* C5: an encryptor invocation on n bytes outputs n bytes under versions 1
\* and 2 and 16 + ceil((n + 1) / 16) * 16 bytes under versions 4 and 5,
\* whatever object number and generation the encryptor was made for.
C5_OutputLength ==
  lastCall.n > 0 =>
    Len(lastCall.output) =
      IF security.version <= 2 THEN Len(lastCall.input)
      ELSE 16 + ((Len(lastCall.input) + 16) \div 16) * 16

\* C5: 16 bytes encrypted under version 4 for object 2 1 gave 48 bytes.
C5_Witness ==
  /\ lastCall.n > 0
  /\ security.version = 4
  /\ encryptFns[lastCall.fn].obj = 2
  /\ Len(lastCall.input) = 16
  /\ Len(lastCall.output) = 48

\* C6, as stated: under versions 1, 2 and 4 two encryptors made for distinct
\* (object number, generation) pairs of non-negative integers have distinct
\* MD5 inputs.
C6_DistinctPairsDistinctInputs ==
  (outcome = "instance" /\ security.version \in {1, 2, 4}) =>
    \A i, j \in 1..Len(encryptFns) :
      <<encryptFns[i].obj, encryptFns[i].gen>> # <<encryptFns[j].obj, encryptFns[j].gen>> =>
        Md5Input(security, encryptFns[i].obj, encryptFns[i].gen) #
          Md5Input(security, encryptFns[j].obj, encryptFns[j].gen)

\* C6, amended: under versions 1, 2 and 4 two encryptors made for distinct
\* pairs with object numbers below 2^24 and generations below 2^16 have
\* distinct MD5 inputs.
C6_DistinctSmallPairsDistinctInputs ==
  (outcome = "instance" /\ security.version \in {1, 2, 4}) =>
    \A i, j \in 1..Len(encryptFns) :
      (/\ <<encryptFns[i].obj, encryptFns[i].gen>> # <<encryptFns[j].obj, encryptFns[j].gen>>
       /\ encryptFns[i].obj < 16777216 /\ encryptFns[j].obj < 16777216
       /\ encryptFns[i].gen < 65536 /\ encryptFns[j].gen < 65536) =>
        Md5Input(security, encryptFns[i].obj, encryptFns[i].gen) #
          Md5Input(security, encryptFns[j].obj, encryptFns[j].gen)

\* C6: encryptors for objects 1 0 and 1 1 under version 4, with distinct
\* derived keys.
C6_Witness ==
  /\ outcome = "instance"
  /\ security.version = 4
  /\ Len(encryptFns) = 2
  /\ <<encryptFns[1].obj, encryptFns[1].gen>> = <<1, 0>>
  /\ <<encryptFns[2].obj, encryptFns[2].gen>> = <<1, 1>>
  /\ encryptFns[1].key # encryptFns[2].key

\* C7: the version 1 (R2) permission value has bits 1 and 2 clear, bits 7 to
\* 32 set, and bits 3, 4, 5, 6 set exactly when printing, modifying,
\* copying, annotating are truthy; without permissions it is -64.
C7_PermissionsR2 ==
  (call.fn = "PermissionsOf" /\ call.done /\ call.args[1] = 1) =>
    /\ Bit(call.result[1], 1) = 0
    /\ Bit(call.result[1], 2) = 0
    /\ \A k \in 7..32 : Bit(call.result[1], k) = 1
    /\ Bit(call.result[1], 3) = 1 <=> TruthyPrinting(call.args[2].printing)
    /\ Bit(call.result[1], 4) = 1 <=> call.args[2].modifying
    /\ Bit(call.result[1], 5) = 1 <=> call.args[2].copying
    /\ Bit(call.result[1], 6) = 1 <=> call.args[2].annotating
    /\ call.args[2] = NoPermissions => call.result[1] = -64

\* C7: printing: true and copying under version 1 gave -64 + 4 + 16.
C7_Witness ==
  /\ call.fn = "PermissionsOf" /\ call.done /\ call.args[1] = 1
  /\ call.args[2].printing = "true"
  /\ call.args[2].copying /\ ~call.args[2].modifying /\ ~call.args[2].annotating
  /\ call.result = <<-44>>

\* C8: the permission value of versions 2, 4 and 5 (R3, R4, R5) has bits 1
\* and 2 clear, bits 7, 8 and 13 to 32 set, bit 3 set exactly when printing
\* is 'lowResolution' or 'highResolution', bit 12 exactly when it is
\* 'highResolution', bits 4, 5, 6 exactly when modifying, copying,
\* annotating are truthy, and bits 9, 10, 11 exactly when fillingForms,
\* contentAccessibility, documentAssembly are truthy.
C8_PermissionsR3 ==
  (call.fn = "PermissionsOf" /\ call.done /\ call.args[1] \in {2, 4, 5}) =>
    /\ Bit(call.result[1], 1) = 0
    /\ Bit(call.result[1], 2) = 0
    /\ \A k \in {7, 8} \cup (13..32) : Bit(call.result[1], k) = 1
    /\ Bit(call.result[1], 3) = 1 <=>
         call.args[2].printing \in {"lowResolution", "highResolution"}
    /\ Bit(call.result[1], 12) = 1 <=> call.args[2].printing = "highResolution"
    /\ Bit(call.result[1], 4) = 1 <=> call.args[2].modifying
    /\ Bit(call.result[1], 5) = 1 <=> call.args[2].copying
    /\ Bit(call.result[1], 6) = 1 <=> call.args[2].annotating
    /\ Bit(call.result[1], 9) = 1 <=> call.args[2].fillingForms
    /\ Bit(call.result[1], 10) = 1 <=> call.args[2].contentAccessibility
    /\ Bit(call.result[1], 11) = 1 <=> call.args[2].documentAssembly

\* C8: printing: true under version 4 sets neither bit 3 nor bit 12, while
\* fillingForms sets bit 9.
C8_Witness ==
  /\ call.fn = "PermissionsOf" /\ call.done /\ call.args[1] = 4
  /\ call.args[2].printing = "true"
  /\ call.args[2].fillingForms
  /\ Bit(call.result[1], 3) = 0
  /\ Bit(call.result[1], 12) = 0
  /\ Bit(call.result[1], 9) = 1

\* C9: padding a password whose code units are all at most 0xFF returns 32
\* bytes: its first min(len, 32) code units, then, when len < 32, the first
\* 32 - len bytes of PASSWORD_PADDING; an absent or empty password gives
\* PASSWORD_PADDING.
C9_Padding ==
  (/\ call.fn = "processPasswordR2R3R4" /\ call.done
   /\ ~WideAnywhere(call.args[1])) =>
    /\ ~call.result[1].threw
    /\ Len(call.result[1].value) = 32
    /\ \A i \in 1..32 :
         call.result[1].value[i] =
           IF i <= Len(call.args[1].chars) THEN call.args[1].chars[i]
           ELSE PASSWORD_PADDING[i - Len(call.args[1].chars)]
    /\ Len(call.args[1].chars) = 0 => call.result[1].value = PASSWORD_PADDING

\* C9: a password of 5 code units, one of them 0xFF, padded with the first
\* 27 bytes of PASSWORD_PADDING.
C9_Witness ==
  /\ call.fn = "processPasswordR2R3R4" /\ call.done
  /\ Len(call.args[1].chars) = 5
  /\ call.args[1].chars[3] = 255
  /\ ~call.result[1].threw
  /\ SubSeq(call.result[1].value, 6, 32) = SubSeq(PASSWORD_PADDING, 1, 27)

\* C10: in the dictionary of a constructed instance O and U are 32 bytes
\* under R2, R3 and R4, with the last 16 bytes of U zero under R3 and R4;
\* under R5 O and U are 48 bytes, OE and UE 32 bytes and Perms 16 bytes.
C10_EntryLengths ==
  outcome = "instance" =>
    /\ docRefs[security.dictionary].data.R \in {2, 3, 4} =>
         /\ Len(docRefs[security.dictionary].data.O) = 32
         /\ Len(docRefs[security.dictionary].data.U) = 32
    /\ docRefs[security.dictionary].data.R \in {3, 4} =>
         SubSeq(docRefs[security.dictionary].data.U, 17, 32) = Zeros(16)
    /\ docRefs[security.dictionary].data.R = 5 =>
         /\ Len(docRefs[security.dictionary].data.O) = 48
         /\ Len(docRefs[security.dictionary].data.U) = 48
         /\ Len(docRefs[security.dictionary].data.OE) = 32
         /\ Len(docRefs[security.dictionary].data.UE) = 32
         /\ Len(docRefs[security.dictionary].data.Perms) = 16

\* C10: an R3 dictionary built from both passwords and all permissions,
\* whose U starts with a non-zero half.
C10_Witness ==
  /\ outcome = "instance"
  /\ docRefs[security.dictionary].data.R = 3
  /\ Truthy(options.userPassword) /\ Truthy(options.ownerPassword)
  /\ options.permissions = AllPermissions
  /\ SubSeq(docRefs[security.dictionary].data.U, 1, 16) # Zeros(16)

\* C11: the dictionary of a constructed instance has Filter 'Standard', R,
\* O, U and P, and beyond V exactly these algorithm entries: none for V 1;
\* Length 128 for V 2; Length 128, CF.StdCF = {DocOpen, AESV2, 16} and
\* StmF = StrF = 'StdCF' for V 4; Length 256, CF.StdCF = {DocOpen, AESV3,
\* 32}, StmF = StrF = 'StdCF', OE, UE and Perms for V 5.
C11_DictionaryShape ==
  outcome = "instance" =>
    /\ docRefs[security.dictionary].data.Filter = "Standard"
    /\ DOMAIN docRefs[security.dictionary].data =
         {"Filter", "V", "R", "O", "U", "P"} \cup
         ( CASE docRefs[security.dictionary].data.V = 1 -> {}
             [] docRefs[security.dictionary].data.V = 2 -> {"Length"}
             [] docRefs[security.dictionary].data.V = 4 -> {"Length", "CF", "StmF", "StrF"}
             [] docRefs[security.dictionary].data.V = 5 ->
                  {"Length", "CF", "StmF", "StrF", "OE", "UE", "Perms"} )
    /\ docRefs[security.dictionary].data.V = 2 =>
         docRefs[security.dictionary].data.Length = 128
    /\ docRefs[security.dictionary].data.V \in {4, 5} =>
         /\ docRefs[security.dictionary].data.Length =
              IF docRefs[security.dictionary].data.V = 4 THEN 128 ELSE 256
         /\ docRefs[security.dictionary].data.CF =
              [StdCF |-> [AuthEvent |-> "DocOpen",
                          CFM |-> IF docRefs[security.dictionary].data.V = 4
                                  THEN "AESV2" ELSE "AESV3",
                          Length |-> IF docRefs[security.dictionary].data.V = 4
                                     THEN 16 ELSE 32]]
         /\ docRefs[security.dictionary].data.StmF = "StdCF"
         /\ docRefs[security.dictionary].data.StrF = "StdCF"

\* C11: a V 2 dictionary, with Length and without CF, next to the entries
\* every version has.
C11_Witness ==
  /\ outcome = "instance"
  /\ docRefs[security.dictionary].data.V = 2
  /\ docRefs[security.dictionary].data.Length = 128
  /\ "CF" \notin DOMAIN docRefs[security.dictionary].data
  /\ "O" \in DOMAIN docRefs[security.dictionary].data

\* 'key: value' and a newline for each entry of a sequence, in its order.
RECURSIVE LinesOf(_)
LinesOf(entries) ==
  IF entries = <<>> THEN <<>>
  ELSE entries[1].key \o <<58, 32>> \o
       (IF entries[1].value.kind = "string" THEN entries[1].value.chars
        ELSE NumberToString(entries[1].value.number)) \o <<10>> \o
       LinesOf(Tail(entries))

\* C12, as stated: generateFileID of an info with a CreationDate returns
\* the 16-byte MD5 of the CreationDate milliseconds and a newline followed
\* by 'key: value' and a newline for each own key in insertion order.
C12_InsertionOrderText ==
  (call.fn = "generateFileID" /\ call.done /\ HasCreationDate(call.args[1])) =>
    /\ ~call.result[1].threw
    /\ Len(call.result[1].value) = 16
    /\ call.result[1].value =
         md5Hash(Utf8(NumberToString(CreationDateOf(call.args[1]).number) \o <<10>> \o
                      LinesOf(call.args[1].own)))

\* C12, amended: generateFileID of an info with a CreationDate returns the
\* 16-byte MD5 of the CreationDate milliseconds and a newline followed by
\* 'key: value' and a newline for each own key in for-in order: the
\* array-index keys in ascending numeric order, then the other keys in
\* insertion order; inherited keys do not count.
C12_ForInOrderText ==
  (call.fn = "generateFileID" /\ call.done /\ HasCreationDate(call.args[1])) =>
    /\ ~call.result[1].threw
    /\ Len(call.result[1].value) = 16
    /\ call.result[1].value =
         md5Hash(Utf8(NumberToString(CreationDateOf(call.args[1]).number) \o <<10>> \o
                      LinesOf(Ascending(SelectSeq(call.args[1].own,
                                                  LAMBDA en : IsArrayIndex(en.key)))) \o
                      LinesOf(SelectSeq(call.args[1].own,
                                        LAMBDA en : ~IsArrayIndex(en.key)))))

\* C12: a file ID made from an info whose keys were inserted in the order
\* Title, "10", CreationDate, "2", with an inherited key besides.
C12_Witness ==
  /\ call.fn = "generateFileID" /\ call.done
  /\ Len(call.args[1].own) = 4
  /\ call.args[1].own[2].key = <<49, 48>>
  /\ call.args[1].own[3].key = KeyCreationDate
  /\ call.args[1].own[4].key = <<50>>
  /\ call.args[1].inherited # <<>>
  /\ ~call.result[1].threw
  /\ Len(call.result[1].value) = 16

\* C13: a construction for version 1, 2 or 4 makes no random draw, and a
\* second construction with the same pdfVersion, passwords, permissions
\* and file ID gives the same encryptionKey, O, U and P, whatever the
\* entropy source holds.
C13_DeterministicBelowV5 ==
  (outcome = "instance" /\ security.version <= 4) =>
    /\ draws = 0
    /\ call.done =>
         /\ call.result[1].outcome = "instance"
         /\ call.result[1].security.encryptionKey = security.encryptionKey
         /\ docRefs[call.result[1].security.dictionary].data.O =
              docRefs[security.dictionary].data.O
         /\ docRefs[call.result[1].security.dictionary].data.U =
              docRefs[security.dictionary].data.U
         /\ docRefs[call.result[1].security.dictionary].data.P =
              docRefs[security.dictionary].data.P

\* C13: two version 4 constructions from both passwords, registered as two
\* dictionaries with the same non-empty key.
C13_Witness ==
  /\ outcome = "instance"
  /\ security.version = 4
  /\ Truthy(options.ownerPassword)
  /\ call.done
  /\ call.result[1].security.dictionary = 2
  /\ Len(docRefs) = 2
  /\ Len(call.result[1].security.encryptionKey) = 16

\* C14: rc4(data, key) has as many bytes as data, byte k of it is data[k]
\* XOR a keystream byte that depends only on the key and k (the keystream
\* is what rc4 gives for zero bytes), and rc4 of the output under the same
\* key gives data back.
C14_Rc4Involution ==
  (call.fn = "rc4" /\ call.done) =>
    /\ Len(call.result[1]) = Len(call.args[1])
    /\ \A k \in 1..Len(call.args[1]) :
         XorByte(call.result[1][k], call.args[1][k]) =
           rc4(Zeros(Len(call.args[1])), call.args[2])[k]
    /\ Len(call.result) = 2 => call.result[2] = call.args[1]

\* C14: a buffer of 9 bytes went through rc4 twice under the key "Key"; the
\* first output differs from the buffer and the second equals it.
C14_Witness ==
  /\ call.fn = "rc4"
  /\ call.args[2] = <<75, 101, 121>>
  /\ Len(call.args[1]) = 9
  /\ Len(call.result) = 2
  /\ call.result[1] # call.args[1]
  /\ call.result[2] = call.args[1]

\* C15: a successful construction has registered exactly one object, the
\* dictionary with all its entries, a failed one none; and every
\* security.end() so far was an end() on that object's handle.
C15_OneRefThenEnds ==
  /\ outcome = "instance" =>
       /\ Len(docRefs) = 1
       /\ security.dictionary = 1
       /\ {"Filter", "V", "R", "O", "U", "P"} \subseteq DOMAIN docRefs[1].data
       /\ docRefs[1].ends = ended
  /\ outcome # "instance" => docRefs = <<>> /\ ended = 0

\* C15: security.end() called twice on an instance: the one registered
\* handle received both end() calls.
C15_Witness ==
  /\ outcome = "instance"
  /\ ended = 2
  /\ Len(docRefs) = 1
  /\ docRefs[security.dictionary].ends = 2


\* The bytes the sink received for the objects emitted so far.
RECURSIVE EmittedBytes(_, _)
EmittedBytes(emitted, k) ==
  IF k = 0 THEN 0 ELSE EmittedBytes(emitted, k - 1) + emitted[k].length

\* The emissions of object n found in the sink.
EmissionsOf(doc, n) == {k \in 1..Len(doc.emitted) : doc.emitted[k].number = n}

\* Whether document.end() has written the xref table and the trailer.
Finalized(doc) == doc.startxref >= 0

\* The highest object number allocated.
HighestNumber(doc) ==
  CHOOSE n \in {o.number : o \in {doc.objects[k] : k \in Numbers(doc)}} :
    \A m \in Numbers(doc) : doc.objects[m].number <= n

\* C16: after any sequence of ref calls the allocated object numbers are
\* exactly 1..k, each with generation 0; an object that was only allocated is
\* open, has no offset and nothing of it is in the sink, whose byte count is
\* the header plus the emitted objects; and once document.end() has run the
\* xref entry count (the trailer's Size) is the highest object number + 1.
C16_DenseNumbers ==
  /\ {document.objects[n].number : n \in Numbers(document)} = 1..document.counter
  /\ \A n \in Numbers(document) :
       /\ document.objects[n].number = n
       /\ document.objects[n].generation = 0
       /\ document.objects[n].state = "open" =>
            document.objects[n].offset = -1 /\ EmissionsOf(document, n) = {}
  /\ ~Finalized(document) =>
       document.offset = HeaderLength + EmittedBytes(document.emitted, Len(document.emitted))
  /\ Finalized(document) =>
       /\ document.size = HighestNumber(document) + 1
       /\ Len(document.xref) + 1 = document.size

\* C16 witness: document.end() has run on a registry holding producers'
\* objects and an object allocated during finalization.
C16_Witness ==
  /\ document.phase = "ended"
  /\ document.size = MaxObjects + 2
  /\ \E n \in Numbers(document) : document.objects[n].kind = "stream"


\* C17: handle.end() is idempotent.  A written object has exactly one
\* emission in the sink; it lies at the recorded offset, which is the sink's
\* byte count when it was emitted (the header and the emissions before it),
\* and carries the dictionary and payload the object still has: later end()
\* and write() calls, ignored or reported as WriteAfterEnd, added no bytes
\* and changed nothing.
C17_EndIdempotent ==
  \A n \in Numbers(document) :
    document.objects[n].state = "written" =>
      /\ Cardinality(EmissionsOf(document, n)) = 1
      /\ \A k \in EmissionsOf(document, n) :
           /\ document.emitted[k].at = document.objects[n].offset
           /\ document.emitted[k].at = HeaderLength + EmittedBytes(document.emitted, k - 1)
           /\ document.emitted[k].length = ObjectLength(document.objects[n])
           /\ document.emitted[k].refs = document.objects[n].refs
           /\ document.emitted[k].payload = document.objects[n].payload

\* C17 witness: a written stream with a payload, not the first object in the
\* sink, after a later end() or write() on a written object was ignored.
C17_Witness ==
  /\ document.ignored > 0
  /\ \E n \in Numbers(document) :
       /\ document.objects[n].state = "written"
       /\ document.objects[n].payload > 0
       /\ document.objects[n].offset > HeaderLength


\* C18: when document.end() has written the xref table, no object is open,
\* objects allocated during finalization included; startxref is the sink
\* count after the last object, every xref entry is the recorded offset of a
\* written object lying before startxref, and every reference serialized in
\* an emitted dictionary points to a written object of the registry, in
\* whatever order the producers ended their objects.
C18_AllFinalizedBeforeXref ==
  Finalized(document) =>
    /\ OpenNumbers(document) = {}
    /\ document.startxref =
         HeaderLength + EmittedBytes(document.emitted, Len(document.emitted))
    /\ \A n \in Numbers(document) :
         /\ document.xref[n] = document.objects[n].offset
         /\ document.xref[n] >= HeaderLength
         /\ document.xref[n] < document.startxref
    /\ \A k \in 1..Len(document.emitted) : \A m \in document.emitted[k].refs :
         /\ m \in Numbers(document)
         /\ document.objects[m].state = "written"
         /\ EmissionsOf(document, m) # {}

\* C18 witness: document.end() has run after producers ended two objects
\* against their number order, and finalization allocated an object that
\* an emitted dictionary references.
C18_Witness ==
  /\ Finalized(document)
  /\ \E a, b \in Numbers(document) :
       a < b /\ document.objects[a].offset > document.objects[b].offset
         /\ document.objects[a].kind \in HandleKinds
         /\ document.objects[b].kind \in HandleKinds
  /\ \E n \in Numbers(document) :
       /\ document.objects[n].kind = "page"
       /\ \E m \in document.objects[n].refs :
            m > n /\ document.objects[m].offset > document.objects[n].offset


RECURSIVE BeforeSOS(_)
BeforeSOS(items) ==
  IF items = <<>> \/ Head(items).kind = "sos" THEN <<>>
  ELSE <<Head(items)>> \o BeforeSOS(Tail(items))

IsExif(e) == e.kind = "exif"

\* The Exif APP1 segments before the SOS marker, in file order.
ExifBeforeSOS(file) == SelectSeq(BeforeSOS(file.items), IsExif)

\* The value of the Orientation entry of an Exif segment's IFD0, 0 when it
\* has none.
OrientationEntries(e) == {k \in 1..Len(e.entries) : e.entries[k][1] = OrientationTag}

TagValue(e) ==
  IF OrientationEntries(e) = {} THEN 0
  ELSE e.entries[CHOOSE k \in OrientationEntries(e) : \A j \in OrientationEntries(e) : k <= j][2]

\* A well-formed Exif segment with a tag value in 1..8: complete, byte order
\* II or MM, magic 42, IFD0 inside the segment.
WellFormedWithTag(e) ==
  /\ e.intact
  /\ e.order \in {"II", "MM"}
  /\ e.magic = TiffMagic
  /\ e.ifd = 8
  /\ TagValue(e) \in 1..8

\* A constructor call that completed.
Completed == call.fn = "JPEG" /\ call.done /\ ~call.result[1].threw

C21_StateFixed ==
  [][outcome = "instance" =>
       /\ security' = security
       /\ docRefs'[security.dictionary].data = docRefs[security.dictionary].data
       /\ lastCall'.after = lastCall'.input]_vars

\* C21 witness: an instance whose dictionary was ended, after getEncryptFn
\* calls and an encryptor call on a non-empty buffer.
C21_Witness ==
  /\ outcome = "instance"
  /\ ended > 0
  /\ Len(encryptFns) = MaxFns
  /\ lastCall.n > 0
  /\ lastCall.input # <<>>
  /\ lastCall.output # lastCall.input


\* The n low-order bytes of a non-negative integer, least significant first.
RECURSIVE LowBytes(_, _)
LowBytes(x, n) == IF n = 0 THEN <<>> ELSE <<x % 256>> \o LowBytes(x \div 256, n - 1)

\* The per-object key of the PDF standard for versions 1, 2 and 4.
ObjectKey(sec, obj, gen) ==
  LET input == sec.encryptionKey \o LowBytes(obj, 3) \o LowBytes(gen, 2)
                 \o (IF sec.version = 4 THEN <<115, 65, 108, 84>> ELSE <<>>)
      n == sec.keyBits \div 8 + 5
  IN SubSeq(md5Hash(input), 1, IF n < 16 THEN n ELSE 16)

\* C22: the key captured by every closure getEncryptFn returned is, under
\* versions 1, 2 and 4, the MD5 digest of the file key, the three low bytes
\* of the object number and the two low bytes of the generation (least
\* significant first), with 'sAlT' appended for version 4, truncated to
\* min(16, keyBits/8 + 5) bytes, which is 10 bytes for version 1 and 16 for
\* versions 2 and 4; under version 5 it is the 32-byte file key.
C22_ObjectKey ==
  outcome = "instance" =>
    \A f \in 1..Len(encryptFns) :
      /\ security.version < 5 =>
           encryptFns[f].key = ObjectKey(security, encryptFns[f].obj, encryptFns[f].gen)
      /\ security.version = 5 => encryptFns[f].key = security.encryptionKey
      /\ Len(encryptFns[f].key) =
           CASE security.version = 1 -> 10
             [] security.version \in {2, 4} -> 16
             [] OTHER -> 32

\* C22 witness: a version 4 instance with closures for an object number
\* above 24 bits and for a generation above 16 bits.
C22_Witness ==
  /\ outcome = "instance"
  /\ security.version = 4
  /\ \E f, g \in 1..Len(encryptFns) :
       encryptFns[f].obj = 16777217 /\ encryptFns[g].gen = 65536


\* MD5 applied the given number of times, the digest cut to n bytes after
\* every round.
RECURSIVE Md5Chain(_, _, _)
Md5Chain(data, rounds, n) ==
  IF {data} = {} THEN data
  ELSE IF rounds = 0 THEN data
  ELSE Md5Chain(SubSeq(md5Hash(data), 1, n), rounds - 1, n)

\* The file key of revisions 2 to 4 as the PDF standard derives it from the
\* padded user password, O, P and the file ID.
FileKey(r, keyBits, padded, dict, id) ==
  Md5Chain(padded \o dict.O \o LowBytes(dict.P, 4) \o id,
           IF r = 2 THEN 1 ELSE 51, keyBits \div 8)

\* C23: the file key of an instance has keyBits/8 bytes, which is 5 for
\* revision 2, 16 for revisions 3 and 4, 32 for revision 5; for revisions 2
\* to 4 it is the MD5 chain (1 round for revision 2, 51 for 3 and 4, cut to
\* keyBits/8 bytes after every round) over the padded user password, the O
\* entry, the P entry as four little-endian two's-complement bytes and the
\* file ID.
C23_FileKey ==
  outcome = "instance" =>
    /\ Len(security.encryptionKey) * 8 = security.keyBits
    /\ Len(security.encryptionKey) =
         CASE docRefs[security.dictionary].data.R = 2 -> 5
           [] docRefs[security.dictionary].data.R \in {3, 4} -> 16
           [] docRefs[security.dictionary].data.R = 5 -> 32
    /\ docRefs[security.dictionary].data.R < 5 =>
         security.encryptionKey =
           FileKey(docRefs[security.dictionary].data.R, security.keyBits,
                   processPasswordR2R3R4(options.userPassword).value,
                   docRefs[security.dictionary].data, docId)

\* C23 witness: a revision 3 instance with a user password and negative
\* permission flags.
C23_Witness ==
  /\ outcome = "instance"
  /\ docRefs[security.dictionary].data.R = 3
  /\ docRefs[security.dictionary].data.P < 0
  /\ Truthy(options.userPassword)
  /\ Len(security.encryptionKey) = 16


\* RC4 passes from..19 over a cipher text, pass i under the key with every
\* byte XORed with i.
RECURSIVE Rc4Passes(_, _, _)
Rc4Passes(cipher, key, i) ==
  IF {cipher} = {} THEN cipher
  ELSE IF i = 20 THEN cipher
  ELSE Rc4Passes(rc4(cipher, [j \in 1..Len(key) |-> XorByte(key[j], i)]), key, i + 1)

\* The O entry of revisions 2 to 4 as the PDF standard derives it.
OwnerEntry(r, keyBits, paddedUser, paddedOwner) ==
  IF r = 2
  THEN rc4(paddedUser, SubSeq(md5Hash(paddedOwner), 1, keyBits \div 8))
  ELSE Rc4Passes(paddedUser, SubSeq(Md5Chain(paddedOwner, 51, 16), 1, keyBits \div 8), 0)

\* The padded user password of a configuration: the padding constant when
\* no user password is configured.
PaddedUser(opts) ==
  IF Truthy(opts.userPassword) THEN processPasswordR2R3R4(opts.userPassword).value
  ELSE PASSWORD_PADDING

\* The padded owner password of a configuration: the padded user password
\* when no owner password is configured.
PaddedOwner(opts) ==
  IF Truthy(opts.ownerPassword) THEN processPasswordR2R3R4(opts.ownerPassword).value
  ELSE PaddedUser(opts)

\* C24: for revisions 2 to 4 the O entry is the padded user password
\* encrypted with RC4 under the first keyBits/8 bytes of the MD5 digest of
\* the padded owner password: 1 MD5 round and 1 pass for revision 2, 51
\* rounds and 20 passes (pass i under the key XOR i) for revisions 3 and 4;
\* a missing owner password is replaced by the padded user password and a
\* missing user password by the padding constant.
C24_OwnerEntry ==
  (outcome = "instance" /\ docRefs[security.dictionary].data.R < 5) =>
    docRefs[security.dictionary].data.O =
      OwnerEntry(docRefs[security.dictionary].data.R, security.keyBits,
                 PaddedUser(options), PaddedOwner(options))

\* C24 witness: a revision 4 instance configured with a user password only.
C24_Witness ==
  /\ outcome = "instance"
  /\ docRefs[security.dictionary].data.R = 4
  /\ Truthy(options.userPassword)
  /\ ~Truthy(options.ownerPassword)
  /\ Len(docRefs[security.dictionary].data.O) = 32


\* Bytes from..to-1 (0-based) of an entry.
EntryBytes(entry, from, to) == SubSeq(entry, from + 1, to)

\* The processed passwords of a revision 5 configuration.
UserR5(opts) == processPasswordR5(opts.userPassword)
OwnerR5(opts) ==
  IF Truthy(opts.ownerPassword) THEN processPasswordR5(opts.ownerPassword)
  ELSE UserR5(opts)

\* AES-256-CBC of a 32-byte key under a derived key, zero IV, no padding.
KeyWrap(fileKey, key) == aesCbcEncrypt(fileKey, key, [j \in 1..16 |-> 0], FALSE)

\* The revision 5 entries, each derived from the salts stored in U and O.
EntriesR5(d, user, owner, fileKey) ==
  /\ Len(d.U) = 48
  /\ Len(d.O) = 48
  /\ EntryBytes(d.U, 0, 32) = sha256Hash(user \o EntryBytes(d.U, 32, 40))
  /\ d.UE = KeyWrap(fileKey, sha256Hash(user \o EntryBytes(d.U, 40, 48)))
  /\ EntryBytes(d.O, 0, 32) = sha256Hash(owner \o EntryBytes(d.O, 32, 40) \o d.U)
  /\ d.OE = KeyWrap(fileKey, sha256Hash(owner \o EntryBytes(d.O, 40, 48) \o d.U))
  /\ Len(fileKey) = 32
  /\ Len(d.UE) = 32
  /\ Len(d.OE) = 32

\* C25: under revision 5 the salts stored in U and O are the salts of the
\* derived keys: U is hash(password + validation salt), validation salt,
\* key salt; UE is keyed by the user password and bytes 40-47 of U; O's hash
\* and the OE key cover the owner password, the salt at bytes 32-39 / 40-47
\* of O and the whole 48-byte U; UE and OE encrypt the same 32-byte file key
\* with a zero IV and no padding.
C25_StoredSalts ==
  (outcome = "instance" /\ docRefs[security.dictionary].data.R = 5) =>
    EntriesR5(docRefs[security.dictionary].data, UserR5(options), OwnerR5(options),
              security.encryptionKey)

\* C25 witness: a revision 5 instance with distinct user and owner
\* passwords whose four salts are not all equal.
C25_Witness ==
  /\ outcome = "instance"
  /\ docRefs[security.dictionary].data.R = 5
  /\ Truthy(options.ownerPassword)
  /\ UserR5(options) # OwnerR5(options)
  /\ EntryBytes(docRefs[security.dictionary].data.U, 32, 40) # EntryBytes(docRefs[security.dictionary].data.U, 40, 48)
  /\ EntryBytes(docRefs[security.dictionary].data.O, 40, 48) # EntryBytes(docRefs[security.dictionary].data.U, 40, 48)
  /\ EntryBytes(docRefs[security.dictionary].data.O, 32, 40) # EntryBytes(docRefs[security.dictionary].data.O, 40, 48)


\* The plaintext of one AES block: the inverse of the block encryption.
AesBlockDecrypt(block, key) ==
  [j \in 1..16 |-> (block[j] - key[((j - 1) % Len(key)) + 1] - j) % 256]

\* The plaintext of the Perms entry of a revision 5 instance.
PermsPlaintext == AesBlockDecrypt(docRefs[security.dictionary].data.Perms, security.encryptionKey)

C27_ScanTerminates ==
  /\ [][(call.at = "loop" /\ call'.at = "loop") => call'.pos > call.pos]_vars
  /\ <>(call.done)

\* C27 witness: a constructor call that has completed with a frame after
\* scanning past a run of zero-length segments.
C27_Witness ==
  /\ call.fn = "JPEG"
  /\ call.done
  /\ ~call.result[1].threw
  /\ SubSeq(call.args[1], 3, 10) = ZeroLengthSegment \o ZeroLengthSegment
  /\ call.pos > 10

\* The stepwise scans give what the whole calls give.
ScanAgrees ==
  call.done =>
    call.result[1] = IF call.fn = "JPEG" THEN JPEG(call.args[1])
                     ELSE parseExifOrientation(call.args[1])


\* C28: embed is idempotent per image: over any sequence of embed calls on
\* one instance document.ref is called once and the image bytes are passed
\* to that handle's end() once, in the first call; after the first call the
\* data buffer is null, and a later call changes neither the instance nor
\* the document.
C28_EmbedOnce ==
  /\ [](call.embeds >= 1 =>
          /\ call.refCalls = 1
          /\ call.endData = <<NonNull(call.args[1])>>
          /\ call.image.data.isNull
          /\ ~call.image.obj.isNull
          /\ document.objects[call.image.obj.value].kind = "stream"
          /\ document.objects[call.image.obj.value].payload = Len(call.args[1])
          /\ Cardinality({k \in 1..Len(document.emitted) :
                            document.emitted[k].number = call.image.obj.value}) = 1)
  /\ [][(call.embeds >= 1 /\ call'.embeds > call.embeds) =>
          /\ call'.image = call.image
          /\ document' = document]_vars

\* C28 witness: an image embedded as often as the runs allow, after a page
\* was added, into a document that has since ended.
C28_Witness ==
  /\ call.fn = "embed"
  /\ call.embeds = MaxEmbeds
  /\ call.image.obj.value > 4
  /\ document.pages > 0
  /\ document.phase = "ended"

====
